---- MODULE Spec2Model ----
(***************************************************************************)
(* A model of exporter.py, the Evernote-HTML to Markdown converter.        *)
(*                                                                         *)
(* Text is a sequence of characters, each character a one-character        *)
(* string; chr(160), the non-breaking space, is the token NBSP and the     *)
(* backtick is the token BQ.  A style (a Python dict) is a function from   *)
(* the keys that are set to their values; the empty dict is << >>.         *)
(***************************************************************************)
EXTENDS Integers, Sequences, FiniteSets, TLC

VARIABLES pc,              \* the function being run, or its outcome
          argString,       \* text argument of the function under check
          argAttr,         \* style argument / returned style
          argTag,          \* element argument (anchor, img, table, body)
          result,          \* returned text
          retStyle,        \* returned style
          internal_links,  \* HTMLParser.internal_links
          resources,       \* HTMLParser.resources
          IMAGE_MODE,      \* module option IMAGE_MODE
          err,             \* the exception raised, "" if none
          meta,            \* HTMLParser.meta
          path,            \* HTMLParser.path
          links,           \* main: the worklist of documents to convert
          converted,       \* main: the documents converted, with their links
          args,            \* main: the command line (path and mode)
          files            \* the notes of the directory, with their internal links

vars == <<pc, argString, argAttr, argTag, result, retStyle, internal_links, resources,
          IMAGE_MODE, err, meta, path, links, converted, args, files>>

\* the metadata of the parser and the state of the driver
driver == <<meta, path, links, converted, args, files>>

\* a parser just constructed, outside the driver
NoDriver ==
    /\ meta = << >>
    /\ path = << >>
    /\ links = << >>
    /\ converted = << >>
    /\ args = << >>
    /\ files = << >>

(***************************************************************************)
(* Bounds of the model.                                                    *)
(***************************************************************************)
MaxEscLen == 3

MaxFmtLen == 3

MaxAttrs == 2

MaxAnchors == 2

MaxImages == 2

MaxCodeLen == 3

MaxTableCells == 4

MaxChildren == 2

(***************************************************************************)
(* Python str operations on sequences of characters.                       *)
(***************************************************************************)
NBSP == "NBSP"
\* the backtick character
BQ == "BQ"
BSL == "\\"
NL == "\n"

Min(a, b) == IF a < b THEN a ELSE b

Max(a, b) == IF a > b THEN a ELSE b

\* s[i:] with a 1-based start
From(s, i) == SubSeq(s, i, Len(s))

\* s.startswith(p)
StartsWith(s, p) == Len(p) <= Len(s) /\ SubSeq(s, 1, Len(p)) = p

\* s.endswith(p)
EndsWith(s, p) == Len(p) <= Len(s) /\ SubSeq(s, Len(s) - Len(p) + 1, Len(s)) = p

\* does p occur in s at (1-based) position i
MatchAt(s, p, i) == i + Len(p) - 1 <= Len(s) /\ SubSeq(s, i, i + Len(p) - 1) = p

\* p in s
Contains(s, p) == \E i \in 1..(Len(s) + 1) : MatchAt(s, p, i)

\* s.find(p) as a 1-based position, 0 when absent
Find(s, p) ==
    IF Contains(s, p) THEN CHOOSE i \in 1..(Len(s) + 1) :
                               /\ MatchAt(s, p, i)
                               /\ \A j \in 1..(i - 1) : ~MatchAt(s, p, j)
    ELSE 0

\* the largest / smallest member of a non-empty set of positions
Greatest(S) == CHOOSE k \in S : \A j \in S : j <= k

Least(S) == CHOOSE k \in S : \A j \in S : k <= j

\* the positions from i on where p occurs in s
Occurrences(s, p, i) == {k \in i..Len(s) : MatchAt(s, p, k)}

RECURSIVE ReplaceFrom(_, _, _, _)

\* s from i on, with the occurrence of old at k and the later ones replaced
ReplaceAt(s, old, new, i, k) ==
    SubSeq(s, i, k - 1) \o new \o ReplaceFrom(s, old, new, k + Len(old))

\* s from i on with the occurrences of old replaced, from the left
ReplaceFrom(s, old, new, i) ==
    IF Occurrences(s, old, i) = {} THEN From(s, i)
    ELSE ReplaceAt(s, old, new, i, Least(Occurrences(s, old, i)))

\* s.replace(old, new) for a non-empty old: leftmost, non-overlapping
Replace(s, old, new) == ReplaceFrom(s, old, new, 1)

RECURSIVE Concat(_)
Concat(ss) == IF ss = << >> THEN << >> ELSE Head(ss) \o Concat(Tail(ss))

\* the strings over alphabet A of length at most n
StringsUpTo(A, n) == UNION {[1..k -> A] : k \in 0..n}

(***************************************************************************)
(* _escape / _unescape                                                     *)
(***************************************************************************)
_ESCAPE_CHARS == <<"<", ">", "$", "*", BQ, "+", "-", "_", "~", "#", "[">>

\* the items of _ESCAPE_DICT in insertion order: (char, esc)
_ESCAPE_DICT ==
    [i \in 1..Len(_ESCAPE_CHARS) |-> <<(<<_ESCAPE_CHARS[i]>>), <<BSL, _ESCAPE_CHARS[i]>> >>]
    \o << <<(<<"]", "]">>), <<"]", BSL, "]">> >> >>

\* for char, esc in _ESCAPE_DICT.items(): s = s.replace(char, esc), from item
\* i on (the empty string stays empty)
RECURSIVE EscapeLoop(_, _)
EscapeLoop(s, i) ==
    IF s = << >> \/ i > Len(_ESCAPE_DICT) THEN s
    ELSE EscapeLoop(Replace(s, _ESCAPE_DICT[i][1], _ESCAPE_DICT[i][2]), i + 1)

_escape(s) == EscapeLoop(s, 1)

\* for char, esc in _ESCAPE_DICT.items(): s = s.replace(esc, char), from item
\* i on (the empty string stays empty)
RECURSIVE UnescapeLoop(_, _)
UnescapeLoop(s, i) ==
    IF s = << >> \/ i > Len(_ESCAPE_DICT) THEN s
    ELSE UnescapeLoop(Replace(s, _ESCAPE_DICT[i][2], _ESCAPE_DICT[i][1]), i + 1)

\* a slip: only the single reserved characters are unescaped, ']\]' is left
_unescape_chars_only(s) ==
    IF Contains(s, <<"]", BSL, "]">>) THEN s ELSE UnescapeLoop(s, 1)

_unescape(s) == UnescapeLoop(s, 1)

(***************************************************************************)
(* Specification of the escaper: escape a string of reserved characters    *)
(* and unescape it again.                                                  *)
(***************************************************************************)
ReservedAlphabet == {_ESCAPE_CHARS[i] : i \in 1..Len(_ESCAPE_CHARS)} \cup {"]"}

NoParser ==
    /\ argAttr = << >>
    /\ argTag = << >>
    /\ retStyle = << >>
    /\ internal_links = << >>
    /\ resources = << >>
    /\ IMAGE_MODE = "wiki"
    /\ err = ""
    /\ NoDriver

InitEscape ==
    /\ pc = "escape"
    /\ argString \in StringsUpTo(ReservedAlphabet, MaxEscLen)
    /\ result = << >>
    /\ NoParser

DoEscape ==
    /\ pc = "escape"
    /\ result' = _escape(argString)
    /\ pc' = "unescape"
    /\ UNCHANGED <<driver, argString, argAttr, argTag, retStyle, internal_links, resources,
                   IMAGE_MODE, err>>

DoUnescape ==
    /\ pc = "unescape"
    /\ result' = _unescape(result)
    /\ pc' = "done"
    /\ UNCHANGED <<driver, argString, argAttr, argTag, retStyle, internal_links, resources,
                   IMAGE_MODE, err>>

NextEscape == DoEscape \/ DoUnescape

SpecEscape == InitEscape /\ [][NextEscape]_vars

\* C1: for every string s of reserved characters (']]' included),
\* _unescape(_escape(s)) = s.
C1_EscapeRoundTrip == pc = "done" => result = argString

\* a string holding ']]' and another reserved character has made the round trip
C1_Witness ==
    /\ pc = "done"
    /\ Contains(argString, <<"]", "]">>)
    /\ Contains(argString, <<"[">>)

(***************************************************************************)
(* Character classes, strip, quote and unquote                             *)
(***************************************************************************)
\* a slip: string.whitespace alone, without chr(160)
_WHITESPACE_ascii == {" ", "\t", "\n", "\r", "VT", "FF"}

\* string.whitespace + chr(160)
_WHITESPACE == {" ", "\t", "\n", "\r", "VT", "FF", NBSP}

Digits == {"0", "1", "2", "3", "4", "5", "6", "7", "8", "9"}

Letters ==
    {"a", "b", "c", "d", "e", "f", "g", "h", "i", "j", "k", "l", "m", "n", "o",
     "p", "q", "r", "s", "t", "u", "v", "w", "x", "y", "z", "A", "B", "C", "D",
     "E", "F", "G", "H", "I", "J", "K", "L", "M", "N", "O", "P", "Q", "R", "S",
     "T", "U", "V", "W", "X", "Y", "Z"}

RECURSIVE LStrip(_, _)
LStrip(s, chars) ==
    IF s # << >> /\ Head(s) \in chars THEN LStrip(Tail(s), chars) ELSE s

RECURSIVE RStrip(_, _)
RStrip(s, chars) ==
    IF s # << >> /\ s[Len(s)] \in chars THEN RStrip(SubSeq(s, 1, Len(s) - 1), chars)
    ELSE s

\* s.strip(chars)
Strip(s, chars) == RStrip(LStrip(s, chars), chars)

\* the characters urllib's quote never encodes, and the safe ones of _quote
QuoteSafe == Letters \cup Digits \cup {"_", ".", "-", "~"} \cup {"/", ":", ",", "&", "+"}

\* the percent-encodings of the other characters of the model
PercentCode(c) ==
    CASE c = " " -> <<"%", "2", "0">>
      [] c = "%" -> <<"%", "2", "5">>
      [] c = "#" -> <<"%", "2", "3">>
      [] c = "$" -> <<"%", "2", "4">>
      [] c = "(" -> <<"%", "2", "8">>
      [] c = ")" -> <<"%", "2", "9">>
      [] c = "*" -> <<"%", "2", "A">>
      [] c = "<" -> <<"%", "3", "C">>
      [] c = "=" -> <<"%", "3", "D">>
      [] c = ">" -> <<"%", "3", "E">>
      [] c = "[" -> <<"%", "5", "B">>
      [] c = "]" -> <<"%", "5", "D">>
      [] c = BQ -> <<"%", "6", "0">>
      [] c = "|" -> <<"%", "7", "C">>
      [] c = "\n" -> <<"%", "0", "A">>
      [] OTHER -> <<"%", "3", "F">>

Encoded == {" ", "%", "#", "$", "(", ")", "*", "<", "=", ">", "[", "]", BQ, "|", "\n"}

RECURSIVE UrlQuote(_)
UrlQuote(s) ==
    IF s = << >> THEN << >>
    ELSE (IF Head(s) \in QuoteSafe THEN <<Head(s)>> ELSE PercentCode(Head(s)))
         \o UrlQuote(Tail(s))

RECURSIVE unquote(_)
unquote(s) ==
    IF s = << >> THEN << >>
    ELSE IF Head(s) = "%" /\ Len(s) >= 3
            /\ \E c \in Encoded : PercentCode(c) = SubSeq(s, 1, 3)
         THEN <<CHOOSE c \in Encoded : PercentCode(c) = SubSeq(s, 1, 3)>>
              \o unquote(From(s, 4))
    ELSE <<Head(s)>> \o unquote(Tail(s))

_quote(s) ==
    LET t == Replace(Replace(s, <<BSL>>, <<"/">>), <<NBSP>>, <<" ">>)
    IN  IF unquote(t) = t THEN UrlQuote(t) ELSE t

(***************************************************************************)
(* Styles: Python dicts                                                    *)
(***************************************************************************)
Has(d, k) == k \in DOMAIN d

\* d[k] = v
Put(d, k, v) == [x \in DOMAIN d \cup {k} |-> IF x = k THEN v ELSE d[x]]

\* d.pop(k)
Pop(d, k) == [x \in DOMAIN d \ {k} |-> d[x]]

\* d.update(e)
Update(d, e) == [x \in DOMAIN d \cup DOMAIN e |-> IF x \in DOMAIN e THEN e[x] ELSE d[x]]

\* the keys whose values are booleans; 'code' is "True", "False" or "html",
\* every other value is text
BoolKeys == {"italic", "bold", "underline", "strikethrough", "sub", "sup",
             "highlight", "codeblock", "is_p"}

\* bool(d.get(k)): the key is set and its value is not False, '' or None
Truthy(d, k) ==
    /\ Has(d, k)
    /\ IF k \in BoolKeys THEN d[k]
       ELSE IF k = "code" THEN d[k] # "False"
       ELSE d[k] # << >>

(***************************************************************************)
(* The formatter: _clean_code_block, _format_link, _apply_style, _format   *)
(***************************************************************************)
USE_WIKILINKS == TRUE

\* r'(\d)\\([\.\)])\s' matches at k
ListMarkAt(s, k) ==
    /\ k + 3 <= Len(s)
    /\ s[k] \in Digits
    /\ s[k + 1] = BSL
    /\ s[k + 2] \in {".", ")"}
    /\ s[k + 3] \in _WHITESPACE

RECURSIVE UnescapeListMarksFrom(_, _)

UnescapeListMarkAt(s, i, hits) ==
    IF hits = {} THEN From(s, i)
    ELSE SubSeq(s, i, Least(hits) - 1) \o <<s[Least(hits)], s[Least(hits) + 2], " ">>
         \o UnescapeListMarksFrom(s, Least(hits) + 4)

UnescapeListMarksFrom(s, i) ==
    UnescapeListMarkAt(s, i, {k \in i..Len(s) : ListMarkAt(s, k)})

\* re.sub(r'(\d)\\([\.\)])\s', r'\g<1>\g<2> ', string)
UnescapeListMarks(s) == UnescapeListMarksFrom(s, 1)

_clean_code_block(string) ==
    LET s1 == Replace(string, <<"&", "n", "b", "s", "p", ";">>, <<" ">>)
        s2 == UnescapeListMarks(s1)
    IN  _unescape(Strip(Replace(s2, <<NBSP>>, <<" ">>), _WHITESPACE))

\* the characters that keep a link from being written as a wikilink
WikiAmbiguous == {"/", "<", "*", "~", BQ, "=", "|", "[", "]"}

\* the link without alias is chosen by comparing the text with the target's
\* last path component instead of the whole target
_format_link_basename(link, string0) ==
    LET s1 == Replace(Replace(_unescape(string0), <<NBSP>>, <<" ">>), <<"\n", "\n">>, <<"\n">>)
        string == IF EndsWith(s1, <<"]">>) THEN s1 \o <<" ">> ELSE s1
        is_wikilink == USE_WIKILINKS /\ EndsWith(link, <<".", "m", "d">>) /\ ~Contains(link, <<":">>)
        lnk == Replace(unquote(SubSeq(link, 1, Len(link) - 3)), <<NBSP>>, <<" ">>)
        slash == CHOOSE i \in 0..Len(lnk) :
                     /\ i = 0 \/ lnk[i] = "/"
                     /\ \A j \in (i + 1)..Len(lnk) : lnk[j] # "/"
    IN  IF /\ is_wikilink
           /\ \A i \in 1..Len(string) : string[i] \notin WikiAmbiguous
           /\ ~EndsWith(lnk, <<" ">>)
        THEN IF From(lnk, slash + 1) = string THEN <<"[", "[">> \o lnk \o <<"]", "]">>
             ELSE <<"[", "[">> \o lnk \o <<"|">> \o string \o <<"]", "]">>
        ELSE <<"[">> \o string \o <<"]", "(">> \o _quote(link) \o <<")">>

_format_link(link, string0) ==
    LET s1 == Replace(Replace(_unescape(string0), <<NBSP>>, <<" ">>), <<"\n", "\n">>, <<"\n">>)
        string == IF EndsWith(s1, <<"]">>) THEN s1 \o <<" ">> ELSE s1
        is_wikilink == USE_WIKILINKS /\ EndsWith(link, <<".", "m", "d">>) /\ ~Contains(link, <<":">>)
        lnk == Replace(unquote(SubSeq(link, 1, Len(link) - 3)), <<NBSP>>, <<" ">>)
    IN  IF /\ is_wikilink
           /\ \A i \in 1..Len(string) : string[i] \notin WikiAmbiguous
           /\ ~EndsWith(lnk, <<" ">>)
        THEN IF lnk = string THEN <<"[", "[">> \o lnk \o <<"]", "]">>
             ELSE <<"[", "[">> \o lnk \o <<"|">> \o string \o <<"]", "]">>
        ELSE <<"[">> \o string \o <<"]", "(">> \o _quote(link) \o <<")">>

\* the style as _apply_style leaves it: a link in italics gets underline
WithDefinitionUnderline(attr0) ==
    IF Truthy(attr0, "link") /\ Truthy(attr0, "italic") /\ ~Truthy(attr0, "underline")
    THEN Put(attr0, "underline", TRUE) ELSE attr0

StarEdge(s) == StartsWith(s, <<"*">>) \/ EndsWith(s, <<"*">>)

\* the wrappers of _apply_style after the link, one per key, in the order
\* of the code
Italic(s, a) ==
    IF ~Truthy(a, "italic") THEN s
    ELSE IF StarEdge(s) THEN <<"_">> \o s \o <<"_">>
    ELSE <<"*">> \o s \o <<"*">>

Bold(s, a) ==
    IF ~Truthy(a, "bold") THEN s
    ELSE IF StarEdge(s) THEN <<"_", "_">> \o s \o <<"_", "_">>
    ELSE <<"*", "*">> \o s \o <<"*", "*">>

Strikethrough(s, a) ==
    IF Truthy(a, "strikethrough") THEN <<"~", "~">> \o s \o <<"~", "~">> ELSE s

Abbr(s, a) ==
    IF Truthy(a, "abbr")
    THEN <<"<", "a", "b", "b", "r", " ", "t", "i", "t", "l", "e", "=", "\"">> \o a["abbr"] \o <<"\"", ">">> \o s \o <<"<", "/", "a", "b", "b", "r", ">">>
    ELSE s

Sup(s, a) == IF Truthy(a, "sup") THEN <<"<", "s", "u", "p", ">">> \o s \o <<"<", "/", "s", "u", "p", ">">> ELSE s

Sub(s, a) == IF Truthy(a, "sub") THEN <<"<", "s", "u", "b", ">">> \o s \o <<"<", "/", "s", "u", "b", ">">> ELSE s

Underline(s, a) == IF Truthy(a, "underline") THEN <<"<", "u", ">">> \o s \o <<"<", "/", "u", ">">> ELSE s

Color(s, a) ==
    IF Truthy(a, "color")
    THEN <<"<", "s", "p", "a", "n", " ", "s", "t", "y", "l", "e", "=", "\"", "c", "o", "l", "o", "r", ":", " ">> \o a["color"] \o <<"\"", ">">> \o s \o <<"<", "/", "s", "p", "a", "n", ">">>
    ELSE s

Highlight(s, a) == IF Truthy(a, "highlight") THEN <<"=", "=">> \o s \o <<"=", "=">> ELSE s

Align(s, a) ==
    IF Truthy(a, "align") /\ a["align"] \in {<<"c", "e", "n", "t", "e", "r">>, <<"r", "i", "g", "h", "t">>}
    THEN <<"<", "d", "i", "v", " ", "a", "l", "i", "g", "n", "=", "\"">> \o a["align"] \o <<"\"", ">">>
         \o Replace(s, <<"\n">>, <<"<", "b", "r", ">">>) \o <<"<", "/", "d", "i", "v", ">">>
    ELSE s

ApplyEmphasis(string, a) ==
    Align(Highlight(Color(Underline(Sub(Sup(Abbr(Strikethrough(Bold(Italic(string, a),
        a), a), a), a), a), a), a), a), a)

\* the link wrapper applied last, around the styled text
_apply_style_link_last(string, attr0) ==
    LET a == WithDefinitionUnderline(attr0)
        s == ApplyEmphasis(string, Pop(a, "align"))
        l == IF Truthy(a, "link") THEN _format_link(a["link"], s) ELSE s
    IN  ApplyEmphasis(l, [k \in DOMAIN a \cap {"align"} |-> a[k]])

_apply_style(string, attr0) ==
    LET a == WithDefinitionUnderline(attr0)
        s1 == IF Truthy(a, "link") THEN _format_link(a["link"], string) ELSE string
    IN  ApplyEmphasis(s1, a)

DefaultBlack == {<<"r", "g", "b", "(", "0", ",", " ", "0", ",", " ", "0", ")">>, <<"b", "l", "a", "c", "k">>, <<"#", "0", "0", "0", "0", "0", "0">>}

\* re.match(r'#+ ', string)
RECURSIVE HeadingPrefix(_)
HeadingPrefix(s) ==
    /\ Len(s) >= 2
    /\ s[1] = "#"
    /\ s[2] = " " \/ HeadingPrefix(Tail(s))

RECURSIVE _format(_, _)

\* string[:off] + _format(clean, attr) + string[off+size:]
Unpadded(string, clean, off, attr0) ==
    SubSeq(string, 1, off) \o _format(clean, attr0) \o From(string, off + Len(clean) + 1)

\* the fenced code block of _format
CodeBlock(string, attr0) ==
    <<"\n", "\n", BQ, BQ, BQ>> \o (IF Has(attr0, "lang") THEN attr0["lang"] ELSE <<"b", "a", "s", "h">>)
    \o <<"\n">> \o _clean_code_block(string) \o <<"\n", BQ, BQ, BQ, "\n", "\n">>

\* the inline code of _format: cleaned is _clean_code_block(string)
CodeSpan(string, cleaned, attr0) ==
    IF ~Truthy(attr0, "code") THEN string
    ELSE IF attr0["code"] = "html" THEN <<"<", "c", "o", "d", "e", ">">> \o string \o <<"<", "/", "c", "o", "d", "e", ">">>
    ELSE IF Contains(cleaned, <<BQ>>)
    THEN <<BQ, BQ>>
         \o (IF StartsWith(cleaned, <<BQ>>) THEN <<" ">> ELSE << >>)
         \o cleaned
         \o (IF EndsWith(cleaned, <<BQ>>) THEN <<" ">> ELSE << >>)
         \o <<BQ, BQ>>
    ELSE <<BQ>> \o cleaned \o <<BQ>>

\* attr.pop('color') for the default color
WithoutDefaultColor(attr0) ==
    IF Has(attr0, "color") /\ attr0["color"] \in DefaultBlack THEN Pop(attr0, "color")
    ELSE attr0

\* the length of the heading prefix that string.split(' ', maxsplit=1) cuts
\* off, 0 when there is none
HeadingCut(s1) == IF HeadingPrefix(s1) THEN Find(s1, <<" ">>) ELSE 0

\* return head + _apply_style(string, attr)
Headed(s1, cut, a) == SubSeq(s1, 1, cut) \o _apply_style(From(s1, cut + 1), a)

\* _format after the code block case: cleaned is _clean_code_block(string)
Inline(string, cleaned, s1, attr0) ==
    IF Truthy(attr0, "code") /\ attr0["code"] # "html" /\ cleaned = << >> THEN << >>
    ELSE Headed(s1, HeadingCut(s1), WithoutDefaultColor(attr0))

_format(string, attr0) ==
    IF attr0 = << >> \/ Strip(string, _WHITESPACE) = << >> THEN string
    ELSE IF string[Len(string)] \in _WHITESPACE \/ string[1] \in _WHITESPACE
    THEN Unpadded(string, Strip(string, _WHITESPACE),
                  Find(string, <<Strip(string, _WHITESPACE)[1]>>) - 1, attr0)
    ELSE IF Truthy(attr0, "codeblock") THEN CodeBlock(string, attr0)
    ELSE Inline(string, _clean_code_block(string),
                CodeSpan(string, _clean_code_block(string), attr0), attr0)

(***************************************************************************)
(* Specification of the formatter: _format applied to a text and a style.  *)
(***************************************************************************)
FormatAlphabet == {" ", NBSP, "a", "#", "*"}

\* (key, value) pairs a style is built from
StyleItems ==
    {<<"italic", TRUE>>, <<"bold", TRUE>>, <<"underline", TRUE>>,
     <<"strikethrough", TRUE>>, <<"sub", TRUE>>, <<"sup", TRUE>>,
     <<"highlight", TRUE>>, <<"codeblock", TRUE>>, <<"code", "True">>,
     <<"code", "html">>, <<"color", <<"r", "e", "d">>>>, <<"color", <<"b", "l", "a", "c", "k">>>>,
     <<"link", <<"x", ".", "m", "d">>>>, <<"link", <<"h", ":", "x">>>>, <<"abbr", <<"t">>>>,
     <<"align", <<"c", "e", "n", "t", "e", "r">>>>}

\* the dict holding the items of S (one item per key)
DictOf(S) == [k \in {it[1] : it \in S} |-> (CHOOSE it \in S : it[1] = k)[2]]

Styles ==
    {DictOf(S) : S \in {X \in SUBSET StyleItems :
                           /\ Cardinality(X) <= MaxAttrs
                           /\ \A p, q \in X : p[1] = q[1] => p = q}}

InitFormat ==
    /\ pc = "format"
    /\ argString \in StringsUpTo(FormatAlphabet, MaxFmtLen)
    /\ argAttr \in Styles
    /\ result = << >>
    /\ argTag = << >>
    /\ retStyle = << >>
    /\ internal_links = << >>
    /\ resources = << >>
    /\ IMAGE_MODE = "wiki"
    /\ err = ""
    /\ NoDriver

DoFormat ==
    /\ pc = "format"
    /\ result' = _format(argString, argAttr)
    /\ pc' = "formatted"
    /\ UNCHANGED <<driver, argString, argAttr, argTag, retStyle, internal_links, resources,
                   IMAGE_MODE, err>>

NextFormat == DoFormat

SpecFormat == InitFormat /\ [][NextFormat]_vars

\* the whitespace characters of the claims: blank, tab, line breaks, NBSP
Blanks == {" ", "\t", "\n", "\r", "VT", "FF", NBSP}

\* the longest whitespace prefix and suffix of s, and what lies between
LeadingWS(s) == SubSeq(s, 1, Len(s) - Len(LStrip(s, Blanks)))

TrailingWS(s) == From(s, Len(RStrip(s, Blanks)) + 1)

Core(s) == SubSeq(s, Len(LeadingWS(s)) + 1, Len(s) - Len(TrailingWS(s)))

\* C2: for a non-empty style and a string that begins or ends with whitespace
\* (NBSP included) around some other content, _format(string, style) is the
\* leading whitespace, _format of the trimmed core, and the trailing whitespace;
\* a string of whitespace only is returned unchanged.
C2_WhitespaceOutsideMarkers ==
    pc = "formatted" /\ argAttr # << >> =>
        IF Core(argString) = << >> THEN result = argString
        ELSE result = LeadingWS(argString) \o _format(Core(argString), argAttr)
                      \o TrailingWS(argString)

\* a styled text with NBSP in front and a space behind has been formatted
C2_Witness ==
    /\ pc = "formatted"
    /\ argAttr # << >>
    /\ Len(argString) >= 3
    /\ argString[1] = NBSP
    /\ argString[Len(argString)] = " "
    /\ Core(argString) # << >>
    /\ result # argString

\* the style has a link and one of the emphasis attributes of the claim
LinkWithEmphasis(a) ==
    /\ Truthy(a, "link")
    /\ \E k \in {"italic", "bold", "strikethrough", "underline", "color", "highlight"} :
           Truthy(a, k)

\* the text goes to _apply_style as it is: no blank at either end, no heading
\* prefix, no code or code-block or alignment attribute
StyledAsIs(s, a) ==
    /\ s # << >>
    /\ Core(s) = s
    /\ ~HeadingPrefix(s)
    /\ DOMAIN a \cap {"code", "codeblock", "align"} = {}

\* the opening markers of a style, outermost first, and its closing markers
Opening(a) ==
    (IF Truthy(a, "highlight") THEN <<"=", "=">> ELSE << >>)
    \o (IF Truthy(a, "color") /\ a["color"] \notin DefaultBlack
        THEN <<"<", "s", "p", "a", "n", " ", "s", "t", "y", "l", "e", "=", "\"", "c", "o", "l", "o", "r", ":", " ">> \o a["color"] \o <<"\"", ">">> ELSE << >>)
    \o (IF Truthy(a, "underline") \/ Truthy(a, "italic") THEN <<"<", "u", ">">> ELSE << >>)
    \o (IF Truthy(a, "sub") THEN <<"<", "s", "u", "b", ">">> ELSE << >>)
    \o (IF Truthy(a, "sup") THEN <<"<", "s", "u", "p", ">">> ELSE << >>)
    \o (IF Truthy(a, "abbr") THEN <<"<", "a", "b", "b", "r", " ", "t", "i", "t", "l", "e", "=", "\"">> \o a["abbr"] \o <<"\"", ">">> ELSE << >>)
    \o (IF Truthy(a, "strikethrough") THEN <<"~", "~">> ELSE << >>)
    \o (IF Truthy(a, "bold") THEN (IF Truthy(a, "italic") THEN <<"_", "_">> ELSE <<"*", "*">>) ELSE << >>)
    \o (IF Truthy(a, "italic") THEN <<"*">> ELSE << >>)

Closing(a) ==
    (IF Truthy(a, "italic") THEN <<"*">> ELSE << >>)
    \o (IF Truthy(a, "bold") THEN (IF Truthy(a, "italic") THEN <<"_", "_">> ELSE <<"*", "*">>) ELSE << >>)
    \o (IF Truthy(a, "strikethrough") THEN <<"~", "~">> ELSE << >>)
    \o (IF Truthy(a, "abbr") THEN <<"<", "/", "a", "b", "b", "r", ">">> ELSE << >>)
    \o (IF Truthy(a, "sup") THEN <<"<", "/", "s", "u", "p", ">">> ELSE << >>)
    \o (IF Truthy(a, "sub") THEN <<"<", "/", "s", "u", "b", ">">> ELSE << >>)
    \o (IF Truthy(a, "underline") \/ Truthy(a, "italic") THEN <<"<", "/", "u", ">">> ELSE << >>)
    \o (IF Truthy(a, "color") /\ a["color"] \notin DefaultBlack THEN <<"<", "/", "s", "p", "a", "n", ">">> ELSE << >>)
    \o (IF Truthy(a, "highlight") THEN <<"=", "=">> ELSE << >>)

\* C8 as stated: for a style with a link and an emphasis attribute the link
\* wrapper encloses the styled text, so the output opens with the link's bracket
\* and closes with the link's bracket or parenthesis.
C8_LinkEnclosesStyledText ==
    pc = "formatted" /\ LinkWithEmphasis(argAttr) /\ StyledAsIs(argString, argAttr) =>
        /\ result[1] = "["
        /\ result[Len(result)] \in {"]", ")"}

\* C8 amended: the link wrapper is applied first, to the text without emphasis,
\* and the emphasis markers enclose the link: the output is the opening markers
\* (highlight, color, underline, sub, sup, abbr, strikethrough, bold, italic,
\* outermost first), the link around the plain text, and the closing markers.
C8_EmphasisEnclosesLink ==
    pc = "formatted" /\ LinkWithEmphasis(argAttr) /\ StyledAsIs(argString, argAttr) =>
        result = Opening(argAttr) \o _format_link(argAttr["link"], argString)
                 \o Closing(argAttr)

\* a bold link has been formatted
C8_Witness ==
    /\ pc = "formatted"
    /\ StyledAsIs(argString, argAttr)
    /\ Truthy(argAttr, "link")
    /\ Truthy(argAttr, "bold")
    /\ result = <<"*", "*", "[", "[", "x", "|", "a", "]", "]", "*", "*">>

(***************************************************************************)
(* The style decoders.  A style-property string is modelled by its tokens: *)
(* a function from property names to values (text).                        *)
(***************************************************************************)
UpperCase == <<"A", "B", "C", "D", "E", "F", "G", "H", "I", "J", "K", "L", "M",
               "N", "O", "P", "Q", "R", "S", "T", "U", "V", "W", "X", "Y", "Z">>

LowerCase == <<"a", "b", "c", "d", "e", "f", "g", "h", "i", "j", "k", "l", "m",
               "n", "o", "p", "q", "r", "s", "t", "u", "v", "w", "x", "y", "z">>

\* s.lower()
Lower(s) ==
    [i \in 1..Len(s) |->
        IF \E j \in 1..26 : UpperCase[j] = s[i]
        THEN LowerCase[CHOOSE j \in 1..26 : UpperCase[j] = s[i]]
        ELSE s[i]]

\* tokens.get(k, default)
Get(tokens, k, default) == IF Has(tokens, k) THEN tokens[k] ELSE default

\* {k: v for k, v in style.items() if v}
DropFalsy(style) == [k \in {x \in DOMAIN style : Truthy(style, x)} |-> style[k]]

NotHighlight == {<<"r", "g", "b", "(", "2", "5", "5", ",", " ", "2", "5", "5", ",", " ", "2", "5", "5", ")">>, <<"w", "h", "i", "t", "e">>, <<"#", "F", "F", "F", "F", "F", "F">>, <<"t", "r", "a", "n", "s", "p", "a", "r", "e", "n", "t">>}

parse_span_style(tokens) ==
    DropFalsy(
        [italic |-> Get(tokens, "font-style", << >>) = <<"i", "t", "a", "l", "i", "c">>,
         bold |-> Get(tokens, "font-weight", << >>) = <<"b", "o", "l", "d">>,
         underline |-> Get(tokens, "text-decoration", << >>) = <<"u", "n", "d", "e", "r", "l", "i", "n", "e">>,
         strikethrough |-> Get(tokens, "text-decoration", << >>) = <<"l", "i", "n", "e", "-", "t", "h", "r", "o", "u", "g", "h">>,
         sub |-> Get(tokens, "vertical-align", << >>) = <<"s", "u", "b">>,
         sup |-> Get(tokens, "vertical-align", << >>) = <<"s", "u", "p", "e", "r">>,
         code |-> IF Contains(Lower(Get(tokens, "font-family", << >>)), <<"c", "o", "u", "r", "i", "e", "r">>)
                  THEN "True" ELSE "False",
         color |-> Get(tokens, "color", << >>),
         highlight |-> Get(tokens, "background-color", <<"w", "h", "i", "t", "e">>) \notin NotHighlight])

_parse_div_style(tokens) ==
    LET align == Lower(Get(tokens, "text-align", << >>))
    IN  DropFalsy(
            [codeblock |-> Get(tokens, "-en-codeblock", << >>) = <<"t", "r", "u", "e">>,
             align |-> IF align \in {<<"c", "e", "n", "t", "e", "r">>, <<"r", "i", "g", "h", "t">>} THEN align ELSE << >>,
             is_p |-> /\ Get(tokens, "margin-top", << >>) = <<"1", "e", "m">>
                      /\ Get(tokens, "margin-bottom", << >>) = <<"1", "e", "m">>])

_parse_font_style(tokens) ==
    [code |-> IF Contains(Lower(Get(tokens, "font-family", << >>)), <<"c", "o", "u", "r", "i", "e", "r">>)
              THEN "True" ELSE "False"]

\* the alias text-decoration-line folded into text-decoration
Aliased(tokens) ==
    LET td == IF Has(tokens, "text-decoration-line") THEN tokens["text-decoration-line"]
              ELSE Get(tokens, "text-decoration", << >>)
    IN  Put(Pop(tokens, "text-decoration-line"), "text-decoration", td)

\* decode_style(prop, parser) for parser = parse_span_style
decode_style(tokens) ==
    IF tokens = << >> THEN << >> ELSE parse_span_style(Aliased(tokens))

\* decode_style(prop, _parse_div_style)
decode_div_style(tokens) ==
    IF tokens = << >> THEN << >> ELSE _parse_div_style(Aliased(tokens))

\* decode_style(prop, _parse_font_style)
decode_font_style(tokens) ==
    IF tokens = << >> THEN << >> ELSE _parse_font_style(Aliased(tokens))

(***************************************************************************)
(* Elements.  An element is a record: name, attrs (a function from the     *)
(* attributes that are set to their values; the value of 'style' is the    *)
(* tokens of the property list), children, and for a text leaf its text.   *)
(***************************************************************************)
TextName == "#text"

Text(t) == [name |-> TextName, attrs |-> << >>, children |-> << >>, text |-> t]

Element(n, a, c) == [name |-> n, attrs |-> a, children |-> c, text |-> << >>]

\* tag.get(k, '')
Attr(tag, k) == IF Has(tag.attrs, k) THEN tag.attrs[k] ELSE << >>

\* tag.get('style', '') as tokens
StyleOf(tag) == IF Has(tag.attrs, "style") THEN tag.attrs["style"] ELSE << >>

(***************************************************************************)
(* HTMLParser._parse_link                                                  *)
(***************************************************************************)
COLOR_INTERNAL_LINKS == FALSE

INLINE_PREVIEWS == "link"

_EMBEDDED_FILES == {<<"m", "p", "4">>, <<"p", "d", "f">>}

InternalColors == {<<"r", "g", "b", "(", "1", "0", "5", ",", " ", "1", "7", "0", ",", " ", "5", "3", ")">>, <<"#", "6", "9", "a", "a", "3", "5">>}

\* os.path.basename(p)
RECURSIVE basename(_)
basename(p) ==
    IF Contains(p, <<"/">>) THEN basename(From(p, Find(p, <<"/">>) + 1)) ELSE p

\* the parser's lists and what a handler returns: text, style, lists
Returned(txt, style, il, res) ==
    [txt |-> txt, style |-> style, internal_links |-> il, resources |-> res,
     err |-> ""]

\* an exception leaving a handler
Raised(e, il, res) ==
    [txt |-> << >>, style |-> << >>, internal_links |-> il, resources |-> res,
     err |-> e]

\* a slip: the else is missing, a note link is recorded as a resource too
_parse_link_both_lists(tag, txt, style0, il, res) ==
    LET link == Attr(tag, "href")
        style1 == Update(style0, decode_style(StyleOf(tag)))
        inter == Has(style1, "color") /\ style1["color"] \in InternalColors
        internal == ~Contains(link, <<":">>)
        note == internal /\ EndsWith(link, <<".", "h", "t", "m", "l">>)
        is_inline == /\ internal
                     /\ ~note
                     /\ \E e \in _EMBEDDED_FILES : EndsWith(link, e)
                     /\ INLINE_PREVIEWS # ""
        link2 == IF note THEN Replace(link, <<".", "h", "t", "m", "l">>, <<".", "m", "d">>) ELSE link
        style2 == IF internal /\ ~COLOR_INTERNAL_LINKS /\ inter
                  THEN Pop(style1, "color") ELSE style1
    IN  IF link = << >> THEN Returned(txt, style0, il, res)
        ELSE IF link = <<"h", "t", "t", "p", "s", ":">> THEN Returned(txt, style0, il, res)
        ELSE IF link = txt THEN Returned(txt, style0, il, res)
        ELSE IF StartsWith(link, <<"#">>) THEN Returned(txt, style0, il, res)
        ELSE Returned(
                 IF is_inline
                 THEN <<"!", "[">> \o basename(link) \o <<"]", "(">> \o _quote(link2) \o <<")">>
                 ELSE txt,
                 IF is_inline THEN style2 ELSE Put(style2, "link", link2),
                 IF note THEN Append(il, unquote(link)) ELSE il,
                 IF internal THEN Append(res, link) ELSE res)

\* a slip: a target equal to the text is not returned early
_parse_link_no_autolink(tag, txt, style0, il, res) ==
    LET link == Attr(tag, "href")
        style1 == Update(style0, decode_style(StyleOf(tag)))
        inter == Has(style1, "color") /\ style1["color"] \in InternalColors
        internal == ~Contains(link, <<":">>)
        note == internal /\ EndsWith(link, <<".", "h", "t", "m", "l">>)
        is_inline == /\ internal
                     /\ ~note
                     /\ \E e \in _EMBEDDED_FILES : EndsWith(link, e)
                     /\ INLINE_PREVIEWS # ""
        link2 == IF note THEN Replace(link, <<".", "h", "t", "m", "l">>, <<".", "m", "d">>) ELSE link
        style2 == IF internal /\ ~COLOR_INTERNAL_LINKS /\ inter
                  THEN Pop(style1, "color") ELSE style1
    IN  IF link = << >> THEN Returned(txt, style0, il, res)
        ELSE IF link = <<"h", "t", "t", "p", "s", ":">> THEN Returned(txt, style0, il, res)
        ELSE IF StartsWith(link, <<"#">>) THEN Returned(txt, style0, il, res)
        ELSE Returned(
                 IF is_inline
                 THEN <<"!", "[">> \o basename(link) \o <<"]", "(">> \o _quote(link2) \o <<")">>
                 ELSE txt,
                 IF is_inline THEN style2 ELSE Put(style2, "link", link2),
                 IF note THEN Append(il, unquote(link)) ELSE il,
                 IF internal /\ ~note THEN Append(res, link) ELSE res)

_parse_link(tag, txt, style0, il, res) ==
    LET link == Attr(tag, "href")
        style1 == Update(style0, decode_style(StyleOf(tag)))
        inter == Has(style1, "color") /\ style1["color"] \in InternalColors
        internal == ~Contains(link, <<":">>)
        note == internal /\ EndsWith(link, <<".", "h", "t", "m", "l">>)
        is_inline == /\ internal
                     /\ ~note
                     /\ \E e \in _EMBEDDED_FILES : EndsWith(link, e)
                     /\ INLINE_PREVIEWS # ""
        link2 == IF note THEN Replace(link, <<".", "h", "t", "m", "l">>, <<".", "m", "d">>) ELSE link
        style2 == IF internal /\ ~COLOR_INTERNAL_LINKS /\ inter
                  THEN Pop(style1, "color") ELSE style1
    IN  IF link = << >> THEN Returned(txt, style0, il, res)
        ELSE IF link = <<"h", "t", "t", "p", "s", ":">> THEN Returned(txt, style0, il, res)
        ELSE IF link = txt THEN Returned(txt, style0, il, res)
        ELSE IF StartsWith(link, <<"#">>) THEN Returned(txt, style0, il, res)
        ELSE Returned(
                 IF is_inline
                 THEN <<"!", "[">> \o basename(link) \o <<"]", "(">> \o _quote(link2) \o <<")">>
                 ELSE txt,
                 IF is_inline THEN style2 ELSE Put(style2, "link", link2),
                 IF note THEN Append(il, unquote(link)) ELSE il,
                 IF internal /\ ~note THEN Append(res, link) ELSE res)

(***************************************************************************)
(* Specification of the link resolver: anchors of one document are handed  *)
(* to _parse_link one after the other, and each returned (text, style) is  *)
(* formatted as _merge_tags does for a child that is not a span.           *)
(***************************************************************************)
Hrefs ==
    {<< >>, <<"h", "t", "t", "p", "s", ":">>, <<"#", "t", "o", "p">>, <<"T", "r", "i", "p", ".", "h", "t", "m", "l">>, <<"N", "o", "t", "e", "s", "/", "T", "r", "i", "p", ".", "h", "t", "m", "l">>,
     <<"a", "%", "2", "0", "b", ".", "h", "t", "m", "l">>, <<"d", "o", "c", ".", "p", "d", "f">>, <<"i", "m", "g", ".", "p", "n", "g">>, <<"h", "t", "t", "p", ":", "/", "/", "e", ".", "o", "r", "g", "/", "x", ".", "h", "t", "m", "l">>,
     <<"m", "a", "i", "l", "t", "o", ":", "m", "e">>}

LinkTexts ==
    {<<"T", "r", "i", "p">>, <<"m", "y", " ", "t", "r", "i", "p">>, <<"#", "t", "o", "p">>, <<"a", "/", "b">>,
     <<"d", "o", "c", ".", "p", "d", "f">>}

\* the style of the anchor's children and the tokens of the anchor's own style
ChildStyles == {<< >>, [italic |-> TRUE]}

AnchorStyles == {<< >>, [color |-> <<"#", "6", "9", "a", "a", "3", "5">>]}

Anchor(href, tokens, txt) ==
    Element("a",
            [k \in (IF href = << >> THEN {} ELSE {"href"})
                   \cup (IF tokens = << >> THEN {} ELSE {"style"}) |->
                IF k = "href" THEN href ELSE tokens],
            <<Text(txt)>>)

InitLink ==
    /\ pc = "idle"
    /\ argString = << >>
    /\ argAttr = << >>
    /\ argTag = << >>
    /\ result = << >>
    /\ retStyle = << >>
    /\ internal_links = << >>
    /\ resources = << >>
    /\ IMAGE_MODE = "wiki"
    /\ err = ""
    /\ NoDriver

ParseLink ==
    /\ pc \in {"idle", "emitted"}
    /\ Len(internal_links) + Len(resources) < MaxAnchors
    /\ \E href \in Hrefs, txt \in LinkTexts, st \in ChildStyles, tokens \in AnchorStyles :
           LET r == _parse_link(Anchor(href, tokens, txt), txt, st,
                                internal_links, resources)
           IN  /\ argTag' = Anchor(href, tokens, txt)
               /\ argString' = txt
               /\ argAttr' = st
               /\ result' = r.txt
               /\ retStyle' = r.style
               /\ internal_links' = r.internal_links
               /\ resources' = r.resources
    /\ pc' = "linked"
    /\ UNCHANGED <<driver, IMAGE_MODE, err>>

\* chunks.append(_format(txt, style)) in _merge_tags
EmitLink ==
    /\ pc = "linked"
    /\ result' = _format(result, retStyle)
    /\ pc' = "emitted"
    /\ UNCHANGED <<driver, argString, argAttr, argTag, retStyle, internal_links, resources,
                   IMAGE_MODE, err>>

NextLink == ParseLink \/ EmitLink

SpecLink == InitLink /\ [][NextLink]_vars

\* the three classes of an anchor, read off a step of _parse_link
IsInternalNote ==
    /\ internal_links' = Append(internal_links, unquote(Attr(argTag', "href")))
    /\ resources' = resources
    /\ Truthy(retStyle', "link")
    /\ EndsWith(retStyle'["link"], <<".", "m", "d">>)
    /\ ~EndsWith(retStyle'["link"], <<".", "h", "t", "m", "l">>)
    /\ result' = argString'

IsResource ==
    /\ resources' = Append(resources, Attr(argTag', "href"))
    /\ internal_links' = internal_links
    /\ \/ Truthy(retStyle', "link") /\ retStyle'["link"] = Attr(argTag', "href")
             /\ result' = argString'
       \/ ~Has(retStyle', "link") /\ StartsWith(result', <<"!", "[">>)

IsExternal ==
    /\ internal_links' = internal_links
    /\ resources' = resources
    /\ Truthy(retStyle', "link")
    /\ retStyle'["link"] = Attr(argTag', "href")
    /\ result' = argString'

ExactlyOneClass ==
    /\ IsInternalNote \/ IsResource \/ IsExternal
    /\ ~(IsInternalNote /\ IsResource)
    /\ ~(IsInternalNote /\ IsExternal)
    /\ ~(IsResource /\ IsExternal)

\* the anchor of the step has a non-empty target that differs from the text
\* and is no fragment reference
HasTarget(tag, txt) ==
    /\ Attr(tag, "href") # << >>
    /\ Attr(tag, "href") # txt
    /\ ~StartsWith(Attr(tag, "href"), <<"#">>)

\* C4 as stated: every anchor whose target is non-empty, differs from the
\* visible text and is no fragment reference is classified as exactly one of
\* internal note, resource, external, and the link is in the style or the
\* embed in the text.
C4_EveryTargetClassified ==
    [][pc' = "linked" /\ HasTarget(argTag', argString') => ExactlyOneClass]_vars

\* C4 amended: the same for every such anchor whose target is not the
\* placeholder 'https:'.
C4_ClassifiedButPlaceholder ==
    [][pc' = "linked" /\ HasTarget(argTag', argString')
          /\ Attr(argTag', "href") # <<"h", "t", "t", "p", "s", ":">> => ExactlyOneClass]_vars

\* a note link and a resource link have both been classified
C4_Witness ==
    /\ pc = "linked"
    /\ internal_links = <<<<"N", "o", "t", "e", "s", "/", "T", "r", "i", "p", ".", "h", "t", "m", "l">>>>
    /\ resources = <<<<"d", "o", "c", ".", "p", "d", "f">>>>
    /\ HasTarget(argTag, argString)

\* the anchor of the last step: an unstyled anchor to the note Notes/Trip.html
TripAnchor ==
    /\ pc = "emitted"
    /\ Attr(argTag, "href") = <<"N", "o", "t", "e", "s", "/", "T", "r", "i", "p", ".", "h", "t", "m", "l">>
    /\ StyleOf(argTag) = << >>
    /\ argAttr = << >>

\* C6 as stated: the anchor to Notes/Trip.html is emitted as [[Notes/Trip]] when
\* its text is the target's basename 'Trip', and as [[Notes/Trip|my trip]] when
\* its text is 'my trip'.
C6_BasenameWithoutAlias ==
    TripAnchor =>
        /\ argString = <<"T", "r", "i", "p">> => result = <<"[", "[", "N", "o", "t", "e", "s", "/", "T", "r", "i", "p", "]", "]">>
        /\ argString = <<"m", "y", " ", "t", "r", "i", "p">> => result = <<"[", "[", "N", "o", "t", "e", "s", "/", "T", "r", "i", "p", "|", "m", "y", " ", "t", "r", "i", "p", "]", "]">>

\* the target of a note link as the wikilink names it
NoteStem(href) == unquote(SubSeq(href, 1, Len(href) - 5))

\* C6 amended: an unstyled anchor to an internal note whose text has no
\* ambiguous character is emitted as [[target]] only when the text equals the
\* whole target without its extension, and as [[target|text]] otherwise, so
\* Notes/Trip.html gives [[Notes/Trip|Trip]] for the text 'Trip' and
\* [[Notes/Trip|my trip]] for 'my trip', and Trip.html gives [[Trip]] for 'Trip'.
C6_AliasUnlessWholeTarget ==
    /\ TripAnchor =>
        /\ argString = <<"T", "r", "i", "p">> => result = <<"[", "[", "N", "o", "t", "e", "s", "/", "T", "r", "i", "p", "|", "T", "r", "i", "p", "]", "]">>
        /\ argString = <<"m", "y", " ", "t", "r", "i", "p">> => result = <<"[", "[", "N", "o", "t", "e", "s", "/", "T", "r", "i", "p", "|", "m", "y", " ", "t", "r", "i", "p", "]", "]">>
    /\ pc = "emitted" /\ argAttr = << >> /\ StyleOf(argTag) = << >>
          /\ ~Contains(Attr(argTag, "href"), <<":">>)
          /\ EndsWith(Attr(argTag, "href"), <<".", "h", "t", "m", "l">>)
          /\ (\A i \in 1..Len(argString) : argString[i] \notin WikiAmbiguous \cup {"#"})
        => result = IF argString = NoteStem(Attr(argTag, "href"))
                    THEN <<"[", "[">> \o argString \o <<"]", "]">>
                    ELSE <<"[", "[">> \o NoteStem(Attr(argTag, "href")) \o <<"|">>
                         \o argString \o <<"]", "]">>

\* the anchor to Notes/Trip.html with the text 'Trip' has been emitted, and so
\* has one whose text is its whole target
C6_Witness ==
    /\ TripAnchor
    /\ argString = <<"T", "r", "i", "p">>
    /\ internal_links = <<<<"T", "r", "i", "p", ".", "h", "t", "m", "l">>, <<"N", "o", "t", "e", "s", "/", "T", "r", "i", "p", ".", "h", "t", "m", "l">>>>

(***************************************************************************)
(* HTMLParser._parse_img                                                   *)
(***************************************************************************)
\* the 1-based position of the last c in p, 0 when there is none
LastIndex(p, c) ==
    CHOOSE i \in 0..Len(p) : /\ i = 0 \/ p[i] = c
                             /\ \A j \in (i + 1)..Len(p) : p[j] # c

\* os.path.splitext(p)[0]
splitext_root(p) ==
    LET sep == LastIndex(p, "/")
        dot == LastIndex(p, ".")
    IN  IF dot > sep /\ \E k \in (sep + 1)..(dot - 1) : p[k] # "."
        THEN SubSeq(p, 1, dot - 1) ELSE p

\* p.split('.')[-1]
LastDotPart(p) == From(p, LastIndex(p, ".") + 1)

\* ' '.join(f'{k}="{v}"' for k, v in attr.items() if v)
RECURSIVE HtmlAttrs(_)
HtmlAttrs(pairs) ==
    IF pairs = << >> THEN << >>
    ELSE LET rest == HtmlAttrs(Tail(pairs))
             p == Head(pairs)
         IN  IF p[2] = << >> THEN rest
             ELSE p[1] \o <<"=", "\"">> \o p[2] \o <<"\"">>
                  \o (IF rest = << >> THEN << >> ELSE <<" ">> \o rest)

\* the image is a preview inside an anchor to an embedded file
IsPreview(parent) ==
    /\ INLINE_PREVIEWS # ""
    /\ parent.name = "a"
    /\ LastDotPart(Attr(parent, "href")) \in _EMBEDDED_FILES

\* parent is tag.parent; the text returned and the resources list
_parse_img(tag, parent, mode, res) ==
    LET src0 == Attr(tag, "src")
        external == Contains(src0, <<":", "/", "/">>)
        src == IF external THEN src0 ELSE _quote(src0)
        fname == Attr(tag, "data-filename")
        name0 == IF Len(fname) > 4 THEN SubSeq(fname, 1, Len(fname) - 4)
                 ELSE Attr(tag, "alt")
        name == IF name0 = << >> THEN basename(src) ELSE name0
        alt == splitext_root(name)
        width == Attr(tag, "width")
        height == Attr(tag, "height")
        size == (IF width # << >> THEN <<"|">> \o width ELSE << >>)
                \o (IF height # << >> THEN <<"x">> \o height ELSE << >>)
        res1 == IF external THEN res ELSE Append(res, src0)
    IN  IF src0 = << >> THEN [txt |-> << >>, resources |-> res]
        ELSE IF IsPreview(parent) THEN [txt |-> << >>, resources |-> res]
        ELSE IF mode = "html"
        THEN [txt |-> <<"<", "i", "m", "g", " ">>
                      \o HtmlAttrs(<< <<<<"s", "r", "c">>, src>>, <<<<"a", "l", "t">>, alt>>,
                                      <<<<"w", "i", "d", "t", "h">>, width>>, <<<<"h", "e", "i", "g", "h", "t">>, height>> >>)
                      \o <<">">>,
              resources |-> res1]
        ELSE IF mode = "wiki"
        THEN [txt |-> <<"!", "[", "[">> \o unquote(src) \o <<"|">> \o alt \o size \o <<"]", "]">>,
              resources |-> res1]
        ELSE [txt |-> <<"!", "[">> \o alt \o size \o <<"]", "(">> \o src \o <<")">>,
              resources |-> res1]

(***************************************************************************)
(* Specification of the media resolver: the images of one document are     *)
(* handed to _parse_img one after the other, under each image dialect.     *)
(***************************************************************************)
ImageModes == {"html", "markdown", "wiki"}

ImgSources == {<< >>, <<"a", ".", "p", "n", "g">>, <<"d", "/", "b", " ", "c", ".", "p", "n", "g">>, <<"h", "t", "t", "p", ":", "/", "/", "e", ".", "o", "r", "g", "/", "p", ".", "p", "n", "g">>}

ImgParents ==
    {Element("body", << >>, << >>),
     Element("a", [href |-> <<"d", "o", "c", ".", "p", "d", "f">>], << >>),
     Element("a", [href |-> <<"n", ".", "h", "t", "m", "l">>], << >>)}

\* an img element with the attributes that are not empty
Img(src, alt, fname, width, height) ==
    LET all == [src |-> src, alt |-> alt, width |-> width, height |-> height]
                   @@ ("data-filename" :> fname)
    IN  Element("img", [k \in {x \in DOMAIN all : all[x] # << >>} |-> all[k]], << >>)

Imgs ==
    {Img(src, alt, fname, width, height) :
        src \in ImgSources, alt \in {<< >>, <<"p", "i", "c">>}, fname \in {<< >>, <<"f", ".", "v", ".", "j", "p", "e", "g">>},
        width \in {<< >>, <<"1", "0">>}, height \in {<< >>, <<"2", "0">>}}

InitImg ==
    /\ pc = "idle"
    /\ argString = << >>
    /\ argAttr = << >>
    /\ argTag = << >>
    /\ result = << >>
    /\ retStyle = << >>
    /\ internal_links = << >>
    /\ resources = << >>
    /\ IMAGE_MODE \in ImageModes
    /\ err = ""
    /\ NoDriver

\* argAttr holds the parent element of the image
ParseImg ==
    /\ pc \in {"idle", "img"}
    /\ Len(resources) < MaxImages
    /\ \E img \in Imgs, parent \in ImgParents :
           LET r == _parse_img(img, parent, IMAGE_MODE, resources)
           IN  /\ argTag' = img
               /\ argAttr' = parent
               /\ result' = r.txt
               /\ resources' = r.resources
    /\ pc' = "img"
    /\ UNCHANGED <<driver, argString, retStyle, internal_links, IMAGE_MODE, err>>

NextImg == ParseImg

SpecImg == InitImg /\ [][NextImg]_vars

\* the text is an image in the bracket-and-parenthesis form ![alt](src)
GenericImage(txt, src) ==
    /\ StartsWith(txt, <<"!", "[">>)
    /\ ~StartsWith(txt, <<"!", "[", "[">>)
    /\ EndsWith(txt, <<"]", "(">> \o src \o <<")">>)

\* C10: for every img with a source that is no suppressed preview, a non-local
\* source (with '://') is not appended to resources and is emitted as ![alt](src)
\* when the image dialect is wiki; a local source is appended to resources once.
C10_ExternalImageDegraded ==
    [][pc' = "img" /\ Attr(argTag', "src") # << >> /\ ~IsPreview(argAttr') =>
          IF Contains(Attr(argTag', "src"), <<":", "/", "/">>)
          THEN /\ resources' = resources
               /\ IMAGE_MODE = "wiki" => GenericImage(result', Attr(argTag', "src"))
          ELSE resources' = Append(resources, Attr(argTag', "src"))]_vars

(***************************************************************************)
(* The finalizer: finalize and _replace_cr_except_code.  Each re.sub is a  *)
(* scan from the left that copies a character where the pattern does not   *)
(* match and writes the replacement where it does.                         *)
(***************************************************************************)
\* codecs.BOM_UTF8.decode('utf-8')
BOM == "BOM"

NbspEntity == <<"&", "n", "b", "s", "p", ";">>

\* the first position from i on whose character is not in set (Len(s)+1 if none)
SkipChars(s, i, set) ==
    IF i > Len(s) THEN i
    ELSE Least({k \in i..Len(s) : s[k] \notin set} \cup {Len(s) + 1})

\* the first position from i on where p does not occur any more, over repeats of p
RECURSIVE SkipCopies(_, _, _)
SkipCopies(s, i, p) ==
    IF MatchAt(s, p, i) THEN SkipCopies(s, i + Len(p), p) ELSE i

\* r"&nbsp;(?![&nbsp;| ]+)" matches at k
InnerNbspAt(s, k) ==
    /\ MatchAt(s, NbspEntity, k)
    /\ ~(k + 6 <= Len(s) /\ s[k + 6] \in {"&", "n", "b", "s", "p", ";", "|", " "})

RECURSIVE SubInnerNbsp(_, _)

InnerNbspFrom(s, i, hits) ==
    IF hits = {} THEN From(s, i)
    ELSE SubSeq(s, i, Least(hits) - 1) \o <<" ">> \o SubInnerNbsp(s, Least(hits) + 6)

\* re.sub(r"&nbsp;(?![&nbsp;| ]+)", " ", txt)
SubInnerNbsp(s, i) == InnerNbspFrom(s, i, {k \in i..Len(s) : InnerNbspAt(s, k)})

\* r" +\n" matches at k
TrailingSpacesAt(s, k) ==
    /\ s[k] = " "
    /\ SkipChars(s, k, {" "}) <= Len(s)
    /\ s[SkipChars(s, k, {" "})] = "\n"

RECURSIVE SubTrailingSpaces(_, _)

TrailingSpacesFrom(s, i, hits) ==
    IF hits = {} THEN From(s, i)
    ELSE SubSeq(s, i, Least(hits) - 1) \o <<"\n">>
         \o SubTrailingSpaces(s, SkipChars(s, Least(hits), {" "}) + 1)

\* re.sub(r" +\n", "\n", txt)
SubTrailingSpaces(s, i) ==
    TrailingSpacesFrom(s, i, {k \in i..Len(s) : TrailingSpacesAt(s, k)})

\* the position of the closing line break of r"\n\**(&nbsp;)+\**\n" at k
LoneNbspEnd(s, k) ==
    SkipChars(s, SkipCopies(s, SkipChars(s, k + 1, {"*"}), NbspEntity), {"*"})

\* r"\n\**(&nbsp;)+\**\n" matches at k
LoneNbspAt(s, k) ==
    /\ s[k] = "\n"
    /\ MatchAt(s, NbspEntity, SkipChars(s, k + 1, {"*"}))
    /\ LoneNbspEnd(s, k) <= Len(s)
    /\ s[LoneNbspEnd(s, k)] = "\n"

RECURSIVE SubLoneNbsp(_, _)

LoneNbspFrom(s, i, hits) ==
    IF hits = {} THEN From(s, i)
    ELSE SubSeq(s, i, Least(hits) - 1) \o <<"\n", "\n">>
         \o SubLoneNbsp(s, LoneNbspEnd(s, Least(hits)) + 1)

\* re.sub(r"\n\**(&nbsp;)+\**\n", "\n\n", txt)
SubLoneNbsp(s, i) == LoneNbspFrom(s, i, {k \in i..Len(s) : LoneNbspAt(s, k)})

\* r"\n\n\n+" matches at k
EmptyLinesAt(s, k) == SkipChars(s, k, {"\n"}) - k >= 3

RECURSIVE SubEmptyLines(_, _)

EmptyLinesFrom(s, i, hits) ==
    IF hits = {} THEN From(s, i)
    ELSE SubSeq(s, i, Least(hits) - 1) \o <<"\n", "\n">>
         \o SubEmptyLines(s, SkipChars(s, Least(hits), {"\n"}))

\* re.sub(r"\n\n\n+", "\n\n", txt)
SubEmptyLines(s, i) == EmptyLinesFrom(s, i, {k \in i..Len(s) : EmptyLinesAt(s, k)})

\* re.sub(r"\n(&nbsp;)", r"\n \1", txt)
SubLineStartNbsp(s) == Replace(s, <<"\n", "&", "n", "b", "s", "p", ";">>, <<"\n", " ", "&", "n", "b", "s", "p", ";">>)

\* the spans of re.finditer(r"```([\S|\s]+?)```", txt) from position i on, as
\* pairs (first position, position after the last)
RECURSIVE codeblocks(_, _)
codeblocks(txt, i) ==
    LET fence == <<BQ, BQ, BQ>>
        open == CHOOSE k \in i..(Len(txt) + 1) :
                    /\ k = Len(txt) + 1 \/ MatchAt(txt, fence, k)
                    /\ \A j \in i..(k - 1) : ~MatchAt(txt, fence, j)
        close == CHOOSE k \in (open + 4)..(Len(txt) + 4) :
                     /\ k > Len(txt) \/ MatchAt(txt, fence, k)
                     /\ \A j \in (open + 4)..(k - 1) : ~MatchAt(txt, fence, j)
    IN  IF open > Len(txt) \/ close > Len(txt) THEN << >>
        ELSE << <<open, close + 3>> >> \o codeblocks(txt, close + 3)

RECURSIVE Repeat(_, _)
Repeat(p, n) == IF n = 0 THEN << >> ELSE p \o Repeat(p, n - 1)

\* the position of the character after the spaces of r"\n\n( {4,})([^-\s1])" at k
IndentEnd(s, k) == SkipChars(s, k + 2, {" "})

\* r"\n\n( {4,})([^-\s1])" matches at k
IndentAt(s, k) ==
    /\ MatchAt(s, <<"\n", "\n">>, k)
    /\ IndentEnd(s, k) - (k + 2) >= 4
    /\ IndentEnd(s, k) <= Len(s)
    /\ s[IndentEnd(s, k)] \notin _WHITESPACE \cup {"-", "1"}

RECURSIVE SubIndent(_, _)

\* _nbsp: the spaces of the match at k as that many '&nbsp;' after a space
IndentFrom(s, i, k, j) ==
    SubSeq(s, i, k - 1) \o <<"\n", "\n", " ">> \o Repeat(NbspEntity, j - (k + 2)) \o <<s[j]>>
    \o SubIndent(s, j + 1)

\* re.sub(r"\n\n( {4,})([^-\s1])", _nbsp, seg)
SubIndent(s, i) ==
    IF {k \in i..Len(s) : IndentAt(s, k)} = {} THEN From(s, i)
    ELSE IndentFrom(s, i, Least({k \in i..Len(s) : IndentAt(s, k)}),
                    IndentEnd(s, Least({k \in i..Len(s) : IndentAt(s, k)})))

\* r"(\S)\n(?!\n| *[\|\-|1|:|>])" matches at k
HardBreakAt(s, k) ==
    /\ s[k] \notin _WHITESPACE
    /\ k + 1 <= Len(s)
    /\ s[k + 1] = "\n"
    /\ ~(k + 2 <= Len(s) /\ s[k + 2] = "\n")
    /\ ~(/\ SkipChars(s, k + 2, {" "}) <= Len(s)
         /\ s[SkipChars(s, k + 2, {" "})] \in {"|", "-", "1", ":", ">"})

RECURSIVE SubHardBreaks(_, _, _)

HardBreaksFrom(s, i, cr_, hits) ==
    IF hits = {} THEN From(s, i)
    ELSE SubSeq(s, i, Least(hits)) \o <<" ">> \o cr_ \o <<"\n">>
         \o SubHardBreaks(s, Least(hits) + 2, cr_)

\* re.sub(r"(\S)\n(?!\n| *[\|\-|1|:|>])", rf"\1 {cr_}\n", seg); cr_ is the
\* marker as the replacement template writes it
SubHardBreaks(s, i, cr_) ==
    HardBreaksFrom(s, i, cr_, {k \in i..Len(s) : HardBreakAt(s, k)})

\* the segments of txt between and in the code blocks: odd positions are
\* normal text, even positions are code blocks
Segments(txt) ==
    LET cb == codeblocks(txt, 1)
        steps == <<1>> \o Concat(cb) \o <<Len(txt) + 1>>
    IN  [n \in 1..(Len(steps) - 1) |-> SubSeq(txt, steps[n], steps[n + 1] - 1)]

\* a slip: the code blocks get the line breaks of normal text too
_replace_cr_in_code_too(txt, cr_) == SubHardBreaks(SubIndent(txt, 1), 1, cr_)

_replace_cr_except_code(txt, cr_) ==
    LET segs == Segments(txt)
    IN  Concat([n \in 1..Len(segs) |->
                   IF n % 2 = 1 THEN SubHardBreaks(SubIndent(segs[n], 1), 1, cr_)
                   ELSE segs[n]])

\* the text of finalize before the line breaks are promoted
Normalized(txt) ==
    LET t1 == Replace(Replace(txt, <<NBSP>>, NbspEntity), <<"\t">>, <<" ", " ", " ", " ">>)
        t2 == Replace(t1, <<BOM>>, << >>)
        t3 == SubInnerNbsp(t2, 1)
        t4 == SubTrailingSpaces(t3, 1)
        t5 == SubLoneNbsp(t4, 1)
        t6 == SubEmptyLines(t5, 1)
    IN  Strip(SubLineStartNbsp(t6), _WHITESPACE)

finalize(txt, cr_) ==
    Strip(_replace_cr_except_code(Normalized(txt), cr_) \o <<"\n">>, _WHITESPACE)
    \o <<"\n">>

(***************************************************************************)
(* Specification of the finalizer: a text with a fenced code block between *)
(* a text before and a text after is finalized with either marker.         *)
(***************************************************************************)
Fence == <<BQ, BQ, BQ>>

CodeAlphabet == {"x", " ", "\n", BQ}

TextsBefore ==
    {<< >>, <<"a", "\n", "b", "\n">>, <<"a", "\n", "\n">>, <<BQ>>, Fence \o <<"a", "\n">>,
     Fence \o <<"p", "\n", "q">> \o Fence \o <<"\n">>}

TextsAfter ==
    {<< >>, <<"\n", "c", "\n", "d">>, <<"\n", "\n", "c">>, <<"\n", "-", " ", "c", "\n", "-", " ", "d">>, <<"\n">> \o Fence \o <<"s", "h", "\n", "z", "\n">> \o Fence,
     <<"c", "\n">> \o Fence}

\* the markers as the replacement template writes them: finalize's default
\* '<br>' and the parser's r"\\"
Markers == {<<"<", "b", "r", ">">>, <<BSL>>}

InitFinalize ==
    /\ pc = "finalize"
    /\ \E before \in TextsBefore, after \in TextsAfter,
          code \in StringsUpTo(CodeAlphabet, MaxCodeLen) \ {<< >>} :
           argString = before \o Fence \o code \o Fence \o after
    /\ argAttr \in Markers
    /\ argTag = << >>
    /\ result = << >>
    /\ retStyle = << >>
    /\ internal_links = << >>
    /\ resources = << >>
    /\ IMAGE_MODE = "wiki"
    /\ err = ""
    /\ NoDriver

\* argAttr holds the marker
DoFinalize ==
    /\ pc = "finalize"
    /\ result' = finalize(argString, argAttr)
    /\ pc' = "finalized"
    /\ UNCHANGED <<driver, argString, argAttr, argTag, retStyle, internal_links, resources,
                   IMAGE_MODE, err>>

NextFinalize == DoFinalize

SpecFinalize == InitFinalize /\ [][NextFinalize]_vars

\* the fenced segments of a text, in order
Fenced(txt) ==
    LET segs == Segments(txt)
    IN  [n \in 1..(Len(segs) \div 2) |-> segs[2 * n]]

\* C5: finalize leaves every fenced code block of the text as a fenced code
\* block without any hard-break marker in it, whatever stands before and
\* after it, and a block whose lines carry no trailing blank and no run of
\* three line breaks comes out verbatim; the markers of the output are all in
\* the segments outside the blocks.  (The input alphabet holds no character
\* of either marker.)
C5_CodeBlocksKeepNewlines ==
    pc = "finalized" =>
        LET in == Fenced(argString)
            out == Fenced(result)
        IN  /\ Len(out) = Len(in)
            /\ \A n \in 1..Len(out) :
                   /\ ~Contains(out[n], argAttr)
                   /\ \/ Contains(in[n], <<" ", "\n">>)
                      \/ Contains(in[n], <<"\n", "\n", "\n">>)
                      \/ out[n] = in[n]

\* a block with an embedded single line break between a text before and a
\* text after that both get hard breaks
C5_Witness ==
    /\ pc = "finalized"
    /\ argString = <<"a", "\n", "b", "\n", BQ, BQ, BQ, "x", "\n", "x", BQ, BQ, BQ, "\n", "c", "\n", "d">>
    /\ result = <<"a", " ", "<", "b", "r", ">", "\n", "b", " ", "<", "b", "r", ">", "\n", BQ, BQ, BQ, "x", "\n", "x", BQ, BQ, BQ, "\n", "c", " ", "<", "b", "r", ">", "\n", "d", "\n">>

(***************************************************************************)
(* The span merger: _format_spans.  A span is a record of its text and     *)
(* its style.                                                              *)
(***************************************************************************)
Span(txt, style) == [txt |-> txt, style |-> style]

\* a slip: the common style is applied to the first span only
_format_spans_first_only(spans) == _format(spans[1].txt, spans[1].style)

_format_spans(spans) ==
    LET first == spans[1].style
        texts == [n \in 1..Len(spans) |-> spans[n].txt]
        common == {k \in DOMAIN first :
                      \A n \in 1..Len(spans) :
                          Has(spans[n].style, k) /\ spans[n].style[k] = first[k]}
        own(n) == [k \in DOMAIN spans[n].style \ common |-> spans[n].style[k]]
        base0 == [k \in common |-> first[k]]
        base_style == IF "code" \in common THEN Put(base0, "code", "html") ELSE base0
        chunk == Concat([n \in 1..Len(spans) |-> _format(spans[n].txt, own(n))])
    IN  IF Len(spans) = 1 THEN _format(spans[1].txt, first)
        ELSE IF \A n \in 1..Len(spans) : spans[n].style = first
        THEN _format(Concat(texts), first)
        ELSE _format(chunk, base_style)

(***************************************************************************)
(* Helpers of the tree walker.                                             *)
(***************************************************************************)
\* r'(\d)([\.\)])\s' matches at k
NumberedAt(s, k) ==
    /\ k + 2 <= Len(s)
    /\ s[k] \in Digits
    /\ s[k + 1] \in {".", ")"}
    /\ s[k + 2] \in _WHITESPACE

RECURSIVE SubNumbered(_, _)

NumberedFrom(s, i, hits) ==
    IF hits = {} THEN From(s, i)
    ELSE SubSeq(s, i, Least(hits)) \o <<BSL, s[Least(hits) + 1], " ">>
         \o SubNumbered(s, Least(hits) + 3)

\* re.sub(r'(\d)([\.\)])\s', r'\g<1>\\\g<2> ', txt)
SubNumbered(s, i) == NumberedFrom(s, i, {k \in i..Len(s) : NumberedAt(s, k)})

\* the line breaks among the whitespace after position k
BreaksAfter(s, k) ==
    {m \in (k + 1)..(SkipChars(s, k + 1, _WHITESPACE) - 1) : s[m] = "\n"}

\* r'\n\s*\n' matches at k
BlankLinesAt(s, k) == s[k] = "\n" /\ BreaksAfter(s, k) # {}

RECURSIVE SubBlankLines(_, _)

BlankLinesFrom(s, i, hits) ==
    IF hits = {} THEN From(s, i)
    ELSE SubSeq(s, i, Least(hits))
         \o SubBlankLines(s, Greatest(BreaksAfter(s, Least(hits))) + 1)

\* re.sub(r'\n\s*\n', r'\n', txt)
SubBlankLines(s, i) == BlankLinesFrom(s, i, {k \in i..Len(s) : BlankLinesAt(s, k)})

\* tag.text: the strings below the element, in document order
RECURSIVE TagText(_)
TagText(tag) ==
    IF tag.name = TextName THEN tag.text
    ELSE Concat([n \in 1..Len(tag.children) |-> TagText(tag.children[n])])

\* the spelling of the element names whose characters the code looks at:
\* the names that start with 'h' ('hr' is handled before the heading rule)
\* and the names that _parse_definition writes out
Spelling ==
    [h1 |-> <<"h", "1">>, h2 |-> <<"h", "2">>, h3 |-> <<"h", "3">>, h4 |-> <<"h", "4">>,
     h5 |-> <<"h", "5">>, h6 |-> <<"h", "6">>,
     header |-> <<"h", "e", "a", "d", "e", "r">>,
     hgroup |-> <<"h", "g", "r", "o", "u", "p">>, h |-> <<"h">>,
     dl |-> <<"d", "l">>, dt |-> <<"d", "t">>, dd |-> <<"d", "d">>]

\* tag.name.startswith('h')
StartsWithH(name) == name \in DOMAIN Spelling /\ Spelling[name][1] = "h"

\* int(s) of a text of decimal digits; -1 stands for the ValueError of
\* any other text
DigitValue ==
    [c \in Digits |->
        CASE c = "0" -> 0 [] c = "1" -> 1 [] c = "2" -> 2 [] c = "3" -> 3
          [] c = "4" -> 4 [] c = "5" -> 5 [] c = "6" -> 6 [] c = "7" -> 7
          [] c = "8" -> 8 [] c = "9" -> 9]

RECURSIVE IntOf(_)
IntOf(s) ==
    IF s = << >> \/ \E n \in 1..Len(s) : s[n] \notin Digits THEN -1
    ELSE IF Len(s) = 1 THEN DigitValue[s[1]]
    ELSE 10 * IntOf(SubSeq(s, 1, Len(s) - 1)) + DigitValue[s[Len(s)]]

\* s.split(',')[0]
FirstField(s) == IF Contains(s, <<",">>) THEN SubSeq(s, 1, Find(s, <<",">>) - 1) ELSE s

_MONOSPACE_FONTS ==
    {<<"a", "n", "d", "a", "l", "e", " ", "m", "o", "n", "o">>, <<"c", "o", "n", "s", "o", "l", "a", "s">>, <<"c", "o", "u", "r", "i", "e", "r", " ", "n", "e", "w">>, <<"l", "u", "c", "i", "d", "a", " ", "c", "o", "n", "s", "o", "l", "e">>, <<"m", "o", "n", "o", "s", "p", "a", "c", "e">>}

\* sep.join(parts)
RECURSIVE Join(_, _)
Join(sep, parts) ==
    IF parts = << >> THEN << >>
    ELSE IF Len(parts) = 1 THEN parts[1]
    ELSE parts[1] \o sep \o Join(sep, Tail(parts))

\* the nearest sibling element before / after position i, skipping strings
\* (find_previous_siblings / find_next_siblings and _lookahead)
PrevIsBlockquote(parent, i) ==
    LET elems == {k \in 1..(i - 1) : parent.children[k].name # TextName}
    IN  elems # {} /\ parent.children[Greatest(elems)].name = "blockquote"

NextIsBlockquote(parent, i) ==
    LET elems == {k \in (i + 1)..Len(parent.children) : parent.children[k].name # TextName}
    IN  elems # {} /\ parent.children[Least(elems)].name = "blockquote"

(***************************************************************************)
(* The tree walker: process_tag, _merge_tags, _parse_definition and        *)
(* _parse_table.  An element is addressed as child i of its parent, so     *)
(* that its siblings and its parent are at hand; gp is the name of the     *)
(* parent's parent.  Every function returns its text and style together    *)
(* with the parser's two lists and the exception raised, if any.           *)
(***************************************************************************)
RECURSIVE process_tag(_, _, _, _, _)
RECURSIVE MergeFrom(_, _, _, _)
RECURSIVE _merge_tags(_, _, _, _)
RECURSIVE DefinitionFrom(_, _, _)
RECURSIVE _parse_definition(_, _, _)
RECURSIVE FillRow(_, _, _, _, _)
RECURSIVE FillRows(_, _, _)
RECURSIVE _parse_table(_, _, _)

\* an unset slot of the grid
None == <<"None">>

Spelled(name) == IF name \in DOMAIN Spelling THEN Spelling[name] ELSE <<name>>

\* the state of the loop of _merge_tags
Merging(txt, style, chunks, spans, il, res, e) ==
    [txt |-> txt, style |-> style, chunks |-> chunks, spans |-> spans,
     internal_links |-> il, resources |-> res, err |-> e]

\* one pass of the loop of _merge_tags: r is process_tag(tag) for child n
MergeStep(parent, n, st, r) ==
    LET tag == parent.children[n]
        old_txt == st.txt
        old_style == st.style
        span_next == n < Len(parent.children) /\ parent.children[n + 1].name = "span"
        spans == IF st.spans # << >> /\ old_style = r.style
                 THEN [st.spans EXCEPT ![Len(st.spans)].txt = @ \o r.txt]
                 ELSE Append(st.spans, Span(r.txt, r.style))
        txt1 == IF tag.name = "div" /\ ~EndsWith(old_txt, <<"\n">>)
                THEN <<"\n">> \o r.txt ELSE r.txt
        txt2 == Replace(txt1, <<"\n">>, <<" ">>)
        txt3 == IF parent.name \in {"ul", "ol"} THEN Strip(txt2, _WHITESPACE) ELSE txt2
        txt4 == IF /\ old_txt # << >>
                   /\ parent.children[n - 1].name = "div"
                   /\ ~EndsWith(old_txt, <<"\n">>)
                   /\ Strip(txt3, _WHITESPACE) # << >>
                THEN <<"\n">> \o txt3 ELSE txt3
        txt == IF tag.name = TextName /\ ~Has(r.style, "code") THEN txt4 ELSE txt1
    IN  IF r.err # ""
        THEN Merging(st.txt, st.style, st.chunks, st.spans, r.internal_links,
                     r.resources, r.err)
        ELSE IF tag.name = "span" /\ span_next
        THEN Merging(r.txt, r.style, st.chunks, spans, r.internal_links, r.resources, "")
        ELSE IF tag.name = "span"
        THEN Merging(r.txt, r.style, st.chunks \o _format_spans(spans), << >>,
                     r.internal_links, r.resources, "")
        ELSE Merging(txt, r.style, st.chunks \o _format(txt, r.style), st.spans,
                     r.internal_links, r.resources, "")

\* the loop of _merge_tags from child n on
MergeFrom(parent, gp, n, st) ==
    IF n > Len(parent.children) \/ st.err # "" THEN st
    ELSE MergeFrom(parent, gp, n + 1,
             MergeStep(parent, n, st,
                 process_tag(parent, n, gp, st.internal_links, st.resources)))

\* return ''.join(chunks)
Merged(st) ==
    IF st.err # "" THEN Raised(st.err, st.internal_links, st.resources)
    ELSE Returned(st.chunks, << >>, st.internal_links, st.resources)

\* _merge_tags(parent.children)
_merge_tags(parent, gp, il, res) ==
    Merged(MergeFrom(parent, gp, 1, Merging(<< >>, << >>, << >>, << >>, il, res, "")))

\* one item of the list comprehension of _parse_definition: m is
\* _merge_tags(t.children)
DefinitionItem(t, r, m) ==
    IF m.err # "" THEN m
    ELSE Returned(r.txt \o <<"<">> \o Spelled(t.name) \o <<">">> \o m.txt
                  \o <<"<", "/">> \o Spelled(t.name) \o <<">">>,
                  << >>, m.internal_links, m.resources)

\* the list comprehension of _parse_definition (MD_DEFINITIONS is False),
\* from child n on; a string has no children
DefinitionFrom(tag, n, r) ==
    IF n > Len(tag.children) \/ r.err # "" THEN r
    ELSE IF tag.children[n].name = TextName
    THEN Raised("AttributeError", r.internal_links, r.resources)
    ELSE DefinitionFrom(tag, n + 1,
             DefinitionItem(tag.children[n], r,
                 _merge_tags(tag.children[n], tag.name, r.internal_links, r.resources)))

\* return f"<{tag.name}>{''.join(tags)}</{tag.name}>\n\n"
DefinitionList(tag, r) ==
    IF r.err # "" THEN r
    ELSE Returned(<<"<">> \o Spelled(tag.name) \o <<">">> \o r.txt
                  \o <<"<", "/">> \o Spelled(tag.name) \o <<">", "\n", "\n">>,
                  << >>, r.internal_links, r.resources)

_parse_definition(tag, il, res) ==
    DefinitionList(tag, DefinitionFrom(tag, 1, Returned(<< >>, << >>, il, res)))

\* the cells of _parse_table: one list of td/th elements per row
RowCells(tr) == SelectSeq(tr.children, LAMBDA c : c.name \in {"td", "th"})

TableCells(tag) ==
    Concat([n \in 1..Len(tag.children) |->
               LET tr == tag.children[n]
               IN  IF tr.name \in {"thead", "tbody", "tfoot"}
                   THEN LET rows == SelectSeq(tr.children, LAMBDA r : r.name = "tr")
                        IN  [k \in 1..Len(rows) |-> RowCells(rows[k])]
                   ELSE IF tr.name = "tr" THEN <<RowCells(tr)>>
                   ELSE << >>])

RECURSIVE Sum(_)
Sum(ns) == IF ns = << >> THEN 0 ELSE Head(ns) + Sum(Tail(ns))

\* int(c.get(name, 1))
SpanOf(cell, name) == IF Has(cell.attrs, name) THEN IntOf(cell.attrs[name]) ELSE 1

\* the state of the loops of _parse_table
Grid(table, il, res, e) ==
    [table |-> table, internal_links |-> il, resources |-> res, err |-> e]

\* table[i][col + 1 .. col + n - 1] = ''
WithColspan(table, i, col, n) ==
    [table EXCEPT ![i] = [c \in 1..Len(table[i]) |->
                             IF c > col /\ c < col + n THEN << >> ELSE table[i][c]]]

\* table[i + 1 .. i + n - 1][col] = '^'
WithRowspan(table, i, col, n) ==
    [r \in 1..Len(table) |->
        IF r > i /\ r < i + n THEN [table[r] EXCEPT ![col] = <<"^">>] ELSE table[r]]

\* the body of the inner loop of _parse_table after the column cursor has
\* stopped at col (1-based): m is _merge_tags(cell.children)
PlaceCell(cell, i, col, g, m) ==
    LET n_cols == Len(g.table[i])
        txt == Replace(Replace(Strip(m.txt, _WHITESPACE), <<"\n">>, <<"<", "b", "r", ">">>),
                       <<"|">>, <<BSL, "|">>)
        placed == [g.table EXCEPT ![i][col] = IF txt # << >> THEN txt ELSE NbspEntity]
        cs == SpanOf(cell, "colspan")
        rs == SpanOf(cell, "rowspan")
        wide == IF Has(cell.attrs, "colspan") THEN WithColspan(placed, i, col, cs)
                ELSE placed
        tall == IF Has(cell.attrs, "rowspan") THEN WithRowspan(wide, i, col, rs)
                ELSE wide
    IN  IF m.err # "" THEN Grid(g.table, m.internal_links, m.resources, m.err)
        ELSE IF cs = -1 THEN Grid(placed, m.internal_links, m.resources, "ValueError")
        ELSE IF col + cs - 1 > n_cols
        THEN Grid(placed, m.internal_links, m.resources, "IndexError")
        ELSE IF rs = -1 THEN Grid(wide, m.internal_links, m.resources, "ValueError")
        ELSE IF rs > 1 /\ i + rs - 1 > Len(g.table)
        THEN Grid(wide, m.internal_links, m.resources, "IndexError")
        ELSE Grid(tall, m.internal_links, m.resources, "")

\* the free slots of row i from col0 on
FreeSlots(g, i, col0) == {c \in col0..Len(g.table[i]) : g.table[i][c] = None}

\* the inner loop of _parse_table: the cells of row i from cell k on, with
\* the column cursor at col0
FillRow(row, k, i, col0, g) ==
    IF k > Len(row) \/ g.err # "" THEN g
    ELSE IF FreeSlots(g, i, col0) = {}
    THEN Grid(g.table, g.internal_links, g.resources, "IndexError")
    ELSE FillRow(row, k + 1, i, Least(FreeSlots(g, i, col0)),
             PlaceCell(row[k], i, Least(FreeSlots(g, i, col0)), g,
                 _merge_tags(row[k], "tr", g.internal_links, g.resources)))

\* the outer loop of _parse_table from row i on
FillRows(cells, i, g) ==
    IF i > Len(cells) \/ g.err # "" THEN g
    ELSE FillRows(cells, i + 1, FillRow(cells[i], 1, i, 1, g))

\* the grid that _parse_table builds for a table of more than one cell
TableGrid(tag, il, res) ==
    LET cells == TableCells(tag)
        spans == [k \in 1..Len(cells[1]) |-> SpanOf(cells[1][k], "colspan")]
        n_cols == Sum(spans)
        empty == [r \in 1..Len(cells) |-> [c \in 1..n_cols |-> None]]
    IN  IF \E k \in 1..Len(spans) : spans[k] = -1
        THEN Grid(<< >>, il, res, "ValueError")
        ELSE FillRows(cells, 1, Grid(empty, il, res, ""))

\* a slip: the header separator is left out
WithoutSeparator(row_txts, separator) == row_txts

\* row_txts.insert(1, separator)
WithSeparator(row_txts, separator) == <<row_txts[1], separator>> \o Tail(row_txts)

\* the table of one cell: single is _parse_cell of that cell before the strip
SingleCell(single) ==
    IF single.err # "" THEN single
    ELSE Returned(<<"\n">> \o Strip(single.txt, _WHITESPACE) \o <<"\n", "\n">>, << >>,
                  single.internal_links, single.resources)

\* the pipe table of the grid g
PipeTable(g) ==
    LET row_txts == [r \in 1..Len(g.table) |->
                        <<"|">> \o Join(<<"|">>, g.table[r]) \o <<"|">>]
        separator == <<"|">> \o Join(<<"|">>, [c \in 1..Len(g.table[1]) |-> <<"-", "-", "-">>])
                     \o <<"|">>
    IN  IF g.err # "" THEN Raised(g.err, g.internal_links, g.resources)
        ELSE IF \E r \in 1..Len(g.table) : \E c \in 1..Len(g.table[r]) :
                    g.table[r][c] = None
        THEN Raised("TypeError", g.internal_links, g.resources)
        ELSE Returned(<<"\n">> \o Join(<<"\n">>, WithSeparator(row_txts, separator))
                      \o <<"\n", "\n">>,
                      << >>, g.internal_links, g.resources)

_parse_table(tag, il, res) ==
    IF TableCells(tag) = << >> THEN Returned(<< >>, << >>, il, res)
    ELSE IF Len(TableCells(tag)) = 1 /\ Len(TableCells(tag)[1]) = 1
    THEN SingleCell(_merge_tags(TableCells(tag)[1][1], "tr", il, res))
    ELSE PipeTable(TableGrid(tag, il, res))

\* the heading rule: head_txt is _format(txt, style) of the heading
Heading(name, head_txt, il, res) ==
    IF head_txt = << >> THEN Returned(head_txt, << >>, il, res)
    ELSE IF Len(Spelling[name]) < 2 THEN Raised("IndexError", il, res)
    ELSE IF IntOf(<<Spelling[name][2]>>) = -1 THEN Raised("ValueError", il, res)
    ELSE Returned(<<"\n", "\n">> \o Repeat(<<"#">>, IntOf(<<Spelling[name][2]>>)) \o <<" ">>
                  \o Replace(Strip(head_txt, _WHITESPACE), <<"\n">>, <<" ">>)
                  \o <<"\n", "\n">>,
                  << >>, il, res)

\* the image rule: img is self._parse_img(tag)
Image(img, parent, i, style, il) ==
    Returned(IF i < Len(parent.children) /\ parent.children[i + 1].name = TextName
             THEN img.txt \o <<"\n">> ELSE img.txt,
             style, il, img.resources)

\* the list rule for ul and ol
ListOf(tag, parent, gp, txt, style, il, res) ==
    LET in_item == parent.name = "li"
        nl == IF in_item /\ parent.children[1].name # tag.name THEN <<"\n">> ELSE << >>
        list_parent == IF in_item THEN gp ELSE parent.name
        padded == IF list_parent = "ul" THEN <<" ", " ">> \o Replace(txt, <<"\n">>, <<"\n", " ", " ">>)
                  ELSE IF list_parent = "ol"
                  THEN <<" ", " ", " ">> \o Replace(txt, <<"\n">>, <<"\n", " ", " ", " ">>)
                  ELSE txt
    IN  Returned(IF list_parent \in {"ul", "ol"}
                 THEN nl \o RStrip(padded, _WHITESPACE) \o <<"\n">>
                 ELSE <<"\n", "\n">> \o padded \o <<"\n", "\n">>,
                 style, il, res)

\* the list item rule
ListItem(tag, parent, txt, style, il, res) ==
    LET first0 == tag.children[1]
        first_none == first0.name = "a" /\ Len(tag.children) = 1
        first == IF first0.name = "a" THEN tag.children[2] ELSE first0
        mark == IF parent.name = "ul" THEN <<"-", " ">> ELSE <<"1", ".", " ">>
    IN  IF tag.children = << >> THEN Raised("StopIteration", il, res)
        ELSE IF first_none \/ first.name \notin {"ul", "ol"}
        THEN Returned(mark \o _format(SubBlankLines(Strip(txt, _WHITESPACE), 1), style)
                      \o <<"\n">>,
                      << >>, il, res)
        ELSE Returned(txt, style, il, res)

\* the font rule
Font(tag, txt, style, il, res) ==
    LET font == Lower(Strip(FirstField(Attr(tag, "face")), {"'"}))
        colored == IF Attr(tag, "color") # << >> THEN Put(style, "color", Attr(tag, "color"))
                   ELSE style
        font_code == IF font \in _MONOSPACE_FONTS THEN "True"
                     ELSE Get(decode_font_style(StyleOf(tag)), "code", "False")
    IN  Returned(txt, Put(colored, "code", font_code), il, res)

\* the block quote rule
Blockquote(parent, i, txt, style, il, res) ==
    LET quote0 == <<"\n", ">", " ">> \o Strip(txt, _WHITESPACE) \o <<"\n">>
        quote1 == IF PrevIsBlockquote(parent, i) THEN quote0 ELSE <<"\n">> \o quote0
    IN  Returned(quote1 \o (IF NextIsBlockquote(parent, i) THEN <<">">> ELSE <<"\n">>),
                 style, il, res)

\* the div rule: div_style is the decoded style of the div
Division(div_style, txt, style, il, res) ==
    Returned(IF Truthy(div_style, "is_p") THEN <<"\n">> \o txt \o <<"\n">> ELSE txt,
             IF Truthy(div_style, "codeblock")
             THEN Put(Put(style, "codeblock", TRUE), "lang", <<"b", "a", "s", "h">>)
             ELSE style,
             il, res)

\* the span rule: span_style is the style after style.update
SpanRule(tag, span_style, txt, il, res) ==
    Returned(txt,
             IF Truthy(span_style, "code") /\ Len(tag.children) > 1
             THEN Put(span_style, "code", "html") ELSE span_style,
             il, res)

\* the rule of process_tag for the element, applied to what its children
\* gave
Handled(tag, parent, i, gp, r) ==
    LET txt == r.txt
        style == r.style
        il == r.internal_links
        res == r.resources
        name == tag.name
    IN  IF r.err # "" THEN r
        ELSE IF name = "div"
        THEN Division(decode_div_style(StyleOf(tag)), txt, style, il, res)
        ELSE IF name = "pre"
        THEN Returned(txt, Put(Put(style, "codeblock", TRUE), "lang", << >>), il, res)
        ELSE IF name = "span"
        THEN SpanRule(tag, Update(style, decode_style(StyleOf(tag))), txt, il, res)
        ELSE IF name = "hr" THEN Returned(<<"\n", "\n", "-", "-", "-", "-", "\n", "\n">>, style, il, res)
        ELSE IF StartsWithH(name)
        THEN Heading(name, _format(txt, decode_div_style(StyleOf(tag))), il, res)
        ELSE IF name = "a" THEN _parse_link(tag, txt, style, il, res)
        ELSE IF name = "img"
        THEN Image(_parse_img(tag, parent, IMAGE_MODE, res), parent, i, style, il)
        ELSE IF name = "font" THEN Font(tag, txt, style, il, res)
        ELSE IF name = "blockquote" THEN Blockquote(parent, i, txt, style, il, res)
        ELSE IF name = "p"
        THEN Returned(<<"\n", "\n">> \o txt \o <<"\n", "\n">>,
                      IF Attr(tag, "align") # << >> THEN Put(style, "align", Attr(tag, "align"))
                      ELSE style,
                      il, res)
        ELSE IF name = "br" THEN Returned(<<"\n">>, style, il, res)
        ELSE IF name \in {"ul", "ol"} THEN ListOf(tag, parent, gp, txt, style, il, res)
        ELSE IF name = "li" THEN ListItem(tag, parent, txt, style, il, res)
        ELSE IF name = "u" THEN Returned(txt, Put(style, "underline", TRUE), il, res)
        ELSE IF name \in {"del", "strike", "s"}
        THEN Returned(txt, Put(style, "strikethrough", TRUE), il, res)
        ELSE IF name \in {"code", "tt"} THEN Returned(txt, Put(style, "code", "True"), il, res)
        ELSE IF name \in {"i", "em"} THEN Returned(txt, Put(style, "italic", TRUE), il, res)
        ELSE IF name \in {"b", "strong"} THEN Returned(txt, Put(style, "bold", TRUE), il, res)
        ELSE IF name = "q" THEN Returned(<<"\"">> \o txt \o <<"\"">>, style, il, res)
        ELSE IF name = "sup" THEN Returned(txt, Put(style, "sup", TRUE), il, res)
        ELSE IF name = "sub" THEN Returned(txt, Put(style, "sub", TRUE), il, res)
        ELSE IF name = "small"
        THEN Returned(txt, Put(Put(style, "sub", TRUE), "sup", TRUE), il, res)
        ELSE IF name = "center"
        THEN Returned(txt, Put(style, "align", <<"c", "e", "n", "t", "e", "r">>), il, res)
        ELSE IF name = "abbr"
        THEN Returned(txt,
                      Put(style, "abbr",
                          IF Has(tag.attrs, "title") THEN tag.attrs["title"] ELSE <<" ">>),
                      il, res)
        ELSE IF name = "dl" THEN _parse_definition(tag, il, res)
        ELSE IF name \in {"table", "tbody"} THEN _parse_table(tag, il, res)
        ELSE Returned(txt, style, il, res)

\* process_tag(tag) for tag = parent.children[i]
process_tag(parent, i, gp, il, res) ==
    IF parent.children[i].name = TextName
    THEN Returned(SubNumbered(_escape(parent.children[i].text), 1), << >>, il, res)
    ELSE Handled(parent.children[i], parent, i, gp,
             IF parent.children[i].name \in {"table", "dl"}
                \/ parent.children[i].children = << >>
             THEN Returned(TagText(parent.children[i]), << >>, il, res)
             ELSE IF Len(parent.children[i].children) > 1
             THEN _merge_tags(parent.children[i], parent.name, il, res)
             ELSE process_tag(parent.children[i], 1, parent.name, il, res))

(***************************************************************************)
(* Specification of the table reconstructor: every table of at most        *)
(* MaxTableCells cells, laid out in rows in every way, is handed to        *)
(* _parse_table.  The cells are plain, empty, with a pipe in their text,   *)
(* or merged to the right, downwards, or both.                             *)
(***************************************************************************)
Cell(txt, attrs) ==
    Element("td", attrs, IF txt = << >> THEN << >> ELSE <<Text(txt)>>)

CellKinds ==
    {Cell(<<"a">>, << >>),
     Cell(<< >>, << >>),
     Cell(<<"p", "|", "q">>, << >>),
     Cell(<<"w">>, [colspan |-> <<"2">>]),
     Cell(<<"t">>, [rowspan |-> <<"2">>]),
     Cell(<<"m">>, [colspan |-> <<"2">>, rowspan |-> <<"2">>])}

\* the rows of a list of cells cut after the positions of breaks
RECURSIVE RowsOf(_, _, _)
RowsOf(cells, breaks, from) ==
    IF from > Len(cells) THEN << >>
    ELSE LET ends == {k \in breaks : k >= from} \cup {Len(cells)}
             to == Least(ends)
         IN  <<Element("tr", << >>, SubSeq(cells, from, to))>>
             \o RowsOf(cells, breaks, to + 1)

InitTable ==
    /\ pc = "table"
    /\ \E n \in 1..MaxTableCells :
           \E cells \in [1..n -> CellKinds], breaks \in SUBSET (1..(n - 1)) :
               argTag = Element("table", << >>, RowsOf(cells, breaks, 1))
    /\ argString = << >>
    /\ argAttr = << >>
    /\ result = << >>
    /\ retStyle = << >>
    /\ internal_links = << >>
    /\ resources = << >>
    /\ IMAGE_MODE = "wiki"
    /\ err = ""
    /\ NoDriver

ParseTable ==
    /\ pc = "table"
    /\ \E r \in {_parse_table(argTag, internal_links, resources)} :
           /\ result' = r.txt
           /\ internal_links' = r.internal_links
           /\ resources' = r.resources
           /\ err' = r.err
    /\ pc' = "parsed"
    /\ UNCHANGED <<driver, argString, argAttr, argTag, retStyle, IMAGE_MODE>>

NextTable == ParseTable

SpecTable == InitTable /\ [][NextTable]_vars

\* the number of occurrences of a character in a text
CountOf(s, c) == Cardinality({k \in 1..Len(s) : s[k] = c})

\* the pipes of a line that delimit cells: a pipe of a cell's text is
\* written '\|' and is not one of them
DelimitingPipes(line) ==
    CountOf(line, "|") - Cardinality({k \in 1..Len(line) : MatchAt(line, <<BSL, "|">>, k)})

\* the lines of a text that are not empty
RECURSIVE LinesOf(_)
LinesOf(s) ==
    IF s = << >> THEN << >>
    ELSE LET brk == Find(s, <<"\n">>)
             line == IF brk = 0 THEN s ELSE SubSeq(s, 1, brk - 1)
             rest == IF brk = 0 THEN << >> ELSE From(s, brk + 1)
         IN  (IF line = << >> THEN << >> ELSE <<line>>) \o LinesOf(rest)

NumRows(table) == Len(table.children)

NumCells(table) == Sum([r \in 1..NumRows(table) |-> Len(table.children[r].children)])

\* no cell is merged downwards past the last row of the table
RowspansInside(table) ==
    \A r \in 1..NumRows(table) :
        \A c \in 1..Len(table.children[r].children) :
            r + SpanOf(table.children[r].children[c], "rowspan") - 1 <= NumRows(table)

\* C3 as stated: for a table of more than one cell, _parse_table builds a
\* grid whose rows all have the column count of the first row, with every
\* slot filled, and emits rows + 1 lines of columns + 1 pipe characters each
\* (counting the pipes that delimit cells, and taking a rowspan that reaches
\* past the last row as not valid)
C3_GridRectangular ==
    pc = "parsed" /\ NumCells(argTag) > 1 /\ RowspansInside(argTag) =>
        LET g == TableGrid(argTag, << >>, << >>).table
            columns == Sum([k \in 1..Len(argTag.children[1].children) |->
                               SpanOf(argTag.children[1].children[k], "colspan")])
            lines == LinesOf(result)
        IN  /\ err = ""
            /\ Len(g) = NumRows(argTag)
            /\ \A r \in 1..Len(g) :
                   /\ Len(g[r]) = columns
                   /\ \A c \in 1..Len(g[r]) : g[r][c] # None
            /\ Len(lines) = NumRows(argTag) + 1
            /\ \A n \in 1..Len(lines) : DelimitingPipes(lines[n]) = columns + 1

\* a table of two rows of two cells, none of them merged
IsTwoByTwo(table) ==
    /\ table.name = "table"
    /\ NumRows(table) = 2
    /\ \A r \in 1..2 :
           /\ Len(table.children[r].children) = 2
           /\ \A c \in 1..2 : table.children[r].children[c].attrs = << >>

\* C9 as stated: a 2x2 table with no merged cells comes out as five lines,
\* four content lines and one separator line, of three pipe characters each
C9_FiveLines ==
    pc = "parsed" /\ IsTwoByTwo(argTag) =>
        LET lines == LinesOf(result)
        IN  /\ Len(lines) = 5
            /\ \A n \in 1..Len(lines) : DelimitingPipes(lines[n]) = 3

\* C9: a 2x2 table with no merged cells comes out as three lines, one
\* content line per row with the separator line between them, and each line
\* holds exactly three pipe characters that delimit cells (a pipe of a cell's
\* text is written '\|' in addition)
C9_ThreeLines ==
    pc = "parsed" /\ IsTwoByTwo(argTag) =>
        LET lines == LinesOf(result)
        IN  /\ err = ""
            /\ Len(lines) = 3
            /\ lines[2] = <<"|", "-", "-", "-", "|", "-", "-", "-", "|">>
            /\ \A n \in 1..Len(lines) : DelimitingPipes(lines[n]) = 3
            /\ \A n \in {1, 3} :
                   CountOf(lines[n], "|")
                   = 3 + Sum([c \in 1..2 |->
                                 CountOf(TagText(argTag.children[(n + 1) \div 2].children[c]),
                                         "|")])

\* the table of the cells a, p|q / (empty), a
C9_Witness ==
    /\ pc = "parsed"
    /\ IsTwoByTwo(argTag)
    /\ result = <<"\n", "|", "a", "|", "p", BSL, "|", "q", "|", "\n", "|", "-", "-", "-", "|", "-", "-", "-", "|", "\n", "|", "&", "n", "b", "s", "p", ";", "|", "a", "|", "\n", "\n">>

(***************************************************************************)
(* HTMLParser.parse: the body of the document is walked and the text is    *)
(* finalized with the parser's marker.                                     *)
(***************************************************************************)
\* HTMLParser.cr_, r"\\", as the replacement template writes it
ParserMarker == <<BSL>>

\* return finalize(txt, self.cr_)
Finalized(r) ==
    IF r.err # "" THEN r
    ELSE Returned(finalize(r.txt, ParserMarker), << >>, r.internal_links, r.resources)

\* the positions of the body among the children of html
BodiesOf(html) == {k \in 1..Len(html.children) : html.children[k].name = "body"}

\* html is next(self.soup.children)
parse(html, il, res) ==
    IF BodiesOf(html) = {} THEN Raised("ValueError", il, res)
    ELSE Finalized(process_tag(html, Least(BodiesOf(html)), "[document]", il, res))

(***************************************************************************)
(* Specification of the conversion of one document: the body holds up to   *)
(* MaxChildren blocks, in every order.                                     *)
(***************************************************************************)
\* <div style="-en-codeblock:true;">print(1)</div>
CodeDiv ==
    Element("div", [style |-> [k \in {"-en-codeblock"} |-> <<"t", "r", "u", "e">>]],
            <<Text(<<"p", "r", "i", "n", "t", "(", "1", ")">>)>>)

Blocks ==
    {CodeDiv,
     Text(<<"t">>),
     Element("div", << >>, <<Text(<<"a", "\n", "b">>)>>),
     Element("div", << >>, <<CodeDiv>>),
     Element("p", << >>, <<Text(<<"q">>)>>),
     Element("h1", << >>, <<Text(<<"T">>)>>),
     Element("span", [style |-> [k \in {"font-weight"} |-> <<"b", "o", "l", "d">>]], <<Text(<<"s">>)>>),
     Element("br", << >>, << >>),
     Element("pre", << >>, <<Text(<<"x", "\n", "y">>)>>),
     Element("header", << >>, <<Text(<<"x">>)>>)}

\* the parser joins adjacent strings: no two strings are neighbours
Bodies ==
    {Element("body", << >>, kids) :
        kids \in {s \in StringsUpTo(Blocks, MaxChildren) :
                     \A k \in 1..(Len(s) - 1) :
                         s[k].name # TextName \/ s[k + 1].name # TextName}}

Documents ==
    {Element("html", << >>, <<Element("head", << >>, << >>), body>>) : body \in Bodies}
    \cup {Element("html", << >>, <<Element("head", << >>, << >>)>>)}

InitParse ==
    /\ pc = "parse"
    /\ argTag \in Documents
    /\ argString = << >>
    /\ argAttr = << >>
    /\ result = << >>
    /\ retStyle = << >>
    /\ internal_links = << >>
    /\ resources = << >>
    /\ IMAGE_MODE = "wiki"
    /\ err = ""
    /\ NoDriver

DoParse ==
    /\ pc = "parse"
    /\ \E r \in {parse(argTag, internal_links, resources)} :
           /\ result' = r.txt
           /\ internal_links' = r.internal_links
           /\ resources' = r.resources
           /\ err' = r.err
    /\ pc' = "converted"
    /\ UNCHANGED <<driver, argString, argAttr, argTag, retStyle, IMAGE_MODE>>

NextParse == DoParse

SpecParse == InitParse /\ [][NextParse]_vars

\* the children of the body of a document, none if it has no body
BodyChildren(html) ==
    IF Len(html.children) < 2 THEN << >> ELSE html.children[2].children

\* C7 as stated: a document whose body holds the div with -en-codeblock:true
\* and the text print(1), alone or among other children, is converted to a
\* text with the fenced block of language bash (documents whose conversion
\* raises are left aside)
C7_CodeblockDivFenced ==
    /\ pc = "converted"
    /\ err = ""
    /\ \E k \in 1..Len(BodyChildren(argTag)) : BodyChildren(argTag)[k] = CodeDiv
    => Contains(result, <<BQ, BQ, BQ, "b", "a", "s", "h", "\n", "p", "r", "i", "n", "t", "(", "1", ")", "\n", BQ, BQ, BQ>>)

(***************************************************************************)
(* Specification of the dispatch of process_tag: one element of every      *)
(* kind, handled or not, with every attribute list and every list of       *)
(* children of the sets below, is the only child of a body and is handed   *)
(* to process_tag.                                                         *)
(***************************************************************************)
\* the names with a rule of their own in process_tag (the names with a
\* digit after the h among them)
HandledNames ==
    {"div", "pre", "span", "hr", "h1", "h2", "h3", "h4", "h5", "h6", "a", "img", "font",
     "blockquote", "p", "br", "ul", "ol", "li", "u", "del", "strike", "s", "code", "tt",
     "i", "em", "b", "strong", "q", "sup", "sub", "small", "center", "abbr", "dl",
     "table", "tbody"}

TagNames ==
    {"cite", "address", "section", "article", "header", "hgroup", "h",
     "font", "span", "pre", "div", "h2", "u", "em"}

TagAttrs ==
    {<< >>,
     [face |-> <<"a", "r", "i", "a", "l">>],
     [face |-> <<"C", "o", "u", "r", "i", "e", "r", " ", "N", "e", "w">>],
     [style |-> [k \in {"font-weight"} |-> <<"b", "o", "l", "d">>]],
     [style |-> [k \in {"font-family"} |-> <<"c", "o", "u", "r", "i", "e", "r">>]]}

TagChildren ==
    {<< >>,
     <<Text(<<"t">>)>>,
     <<Element("b", << >>, <<Text(<<"t">>)>>)>>,
     <<Text(<<"a", " ">>), Element("i", << >>, <<Text(<<"b">>)>>)>>}

InitTag ==
    /\ pc = "tag"
    /\ \E n \in TagNames, a \in TagAttrs, c \in TagChildren :
           argTag = Element("body", << >>, <<Element(n, a, c)>>)
    /\ argString = << >>
    /\ argAttr = << >>
    /\ result = << >>
    /\ retStyle = << >>
    /\ internal_links = << >>
    /\ resources = << >>
    /\ IMAGE_MODE = "wiki"
    /\ err = ""
    /\ NoDriver

ProcessTag ==
    /\ pc = "tag"
    /\ \E r \in {process_tag(argTag, 1, "[document]", internal_links, resources)} :
           /\ result' = r.txt
           /\ retStyle' = r.style
           /\ internal_links' = r.internal_links
           /\ resources' = r.resources
           /\ err' = r.err
    /\ pc' = "processed"
    /\ UNCHANGED <<driver, argString, argAttr, argTag, IMAGE_MODE>>

NextTag == ProcessTag

SpecTag == InitTag /\ [][NextTag]_vars

\* what the children of the element gave before its own rule: tag.text of
\* an element without children, process_tag of an only child, _merge_tags
\* of several
ChildrenGave(tag, gp, il, res) ==
    IF tag.children = << >> THEN Returned(<< >>, << >>, il, res)
    ELSE IF Len(tag.children) > 1 THEN _merge_tags(tag, gp, il, res)
    ELSE process_tag(tag, 1, gp, il, res)

\* C11 as stated: for an element whose name has no rule of its own, 'header'
\* and the other names that merely start with 'h' included, process_tag
\* raises nothing and returns the text and the style its children gave
C11_UnhandledPassesThrough ==
    pc = "processed" /\ argTag.children[1].name \notin HandledNames =>
        /\ err = ""
        /\ result = ChildrenGave(argTag.children[1], "body", << >>, << >>).txt
        /\ retStyle = ChildrenGave(argTag.children[1], "body", << >>, << >>).style

(***************************************************************************)
(* The metadata of a note: parse_metadata reads the title from the first   *)
(* h1 and the pairs of cells of the first table, and takes the notebook    *)
(* path from a tag that starts with 'nb:'.                                 *)
(***************************************************************************)
MaxTags == 3

\* s.split(sep) for a non-empty sep
RECURSIVE SplitFrom(_, _, _)
SplitFrom(s, sep, i) ==
    IF Occurrences(s, sep, i) = {} THEN <<From(s, i)>>
    ELSE <<SubSeq(s, i, Least(Occurrences(s, sep, i)) - 1)>>
         \o SplitFrom(s, sep, Least(Occurrences(s, sep, i)) + Len(sep))

Split(s, sep) == SplitFrom(s, sep, 1)

\* the loop of posixpath.normpath over the components
RECURSIVE NormComps(_, _, _)
NormComps(comps, new_comps, initial_slashes) ==
    IF comps = << >> THEN new_comps
    ELSE IF Head(comps) \in {<< >>, <<".">>}
    THEN NormComps(Tail(comps), new_comps, initial_slashes)
    ELSE IF \/ Head(comps) # <<".", ".">>
            \/ (initial_slashes = 0 /\ new_comps = << >>)
            \/ (new_comps # << >> /\ new_comps[Len(new_comps)] = <<".", ".">>)
    THEN NormComps(Tail(comps), Append(new_comps, Head(comps)), initial_slashes)
    ELSE IF new_comps # << >>
    THEN NormComps(Tail(comps), SubSeq(new_comps, 1, Len(new_comps) - 1), initial_slashes)
    ELSE NormComps(Tail(comps), new_comps, initial_slashes)

\* os.path.normpath(p) on a POSIX system
normpath(p) ==
    LET initial_slashes ==
            IF ~StartsWith(p, <<"/">>) THEN 0
            ELSE IF StartsWith(p, <<"/", "/">>) /\ ~StartsWith(p, <<"/", "/", "/">>) THEN 2
            ELSE 1
        joined == Repeat(<<"/">>, initial_slashes)
                  \o Join(<<"/">>, NormComps(Split(p, <<"/">>), << >>, initial_slashes))
    IN  IF p = << >> \/ joined = << >> THEN <<".">> ELSE joined

\* soup.find_all(name) below tag, in document order
RECURSIVE FindAll(_, _)
FindAll(tag, name) ==
    Concat([n \in 1..Len(tag.children) |->
               (IF tag.children[n].name = name THEN <<tag.children[n]>> ELSE << >>)
               \o FindAll(tag.children[n], name)])

\* list.remove(x): the list without the first member equal to x
ListRemove(list, x) ==
    LET at == Least({k \in 1..Len(list) : list[k] = x})
    IN  SubSeq(list, 1, at - 1) \o SubSeq(list, at + 1, Len(list))

tags == <<"t", "a", "g", "s">>

title == <<"t", "i", "t", "l", "e">>

\* the loop over the pairs of cells: tds[2k - 1] holds the key, tds[2k] the value
RECURSIVE MetaPairs(_, _, _)
MetaPairs(tds, k, m) ==
    IF 2 * k > Len(tds) THEN m
    ELSE LET text == TagText(tds[2 * k - 1])
             key == Lower(Strip(SubSeq(text, 1, Len(text) - 1), _WHITESPACE))
             val == Strip(TagText(tds[2 * k]), _WHITESPACE)
         IN  MetaPairs(tds, k + 1,
                       Put(m, key, IF key = tags THEN Split(val, <<",", " ">>) ELSE val))

\* meta after the title and the table have been read
MetaRead(soup) ==
    LET h1s == FindAll(soup, "h1")
        tables == FindAll(soup, "table")
        titled == IF h1s = << >> THEN << >> ELSE Put(<< >>, title, TagText(h1s[1]))
    IN  IF tables = << >> THEN titled
        ELSE MetaPairs(FindAll(tables[1], "td"), 1, titled)

\* bool(meta.get('tags')): the key is set and the list is not empty
HasTags(m) == Has(m, tags) /\ m[tags] # << >>

\* the positions of the tags that start with 'nb:'
NotebookTags(list) == {k \in 1..Len(list) : StartsWith(list[k], <<"n", "b", ":">>)}

\* meta after the loop over the tags: the first tag that starts with 'nb:'
\* is removed, and the key with it if no tag is left
WithoutNotebook(m) ==
    IF ~HasTags(m) \/ NotebookTags(m[tags]) = {} THEN m
    ELSE LET tag == m[tags][Least(NotebookTags(m[tags]))]
             rest == ListRemove(m[tags], tag)
         IN  IF rest = << >> THEN Pop(m, tags) ELSE Put(m, tags, rest)

\* self.path after the loop over the tags
NotebookPath(m, p) ==
    IF ~HasTags(m) \/ NotebookTags(m[tags]) = {} THEN p
    ELSE normpath(From(m[tags][Least(NotebookTags(m[tags]))], 4))

(***************************************************************************)
(* Specification of parse_metadata: a note with or without a title, with   *)
(* a metadata table whose row of tags lists up to MaxTags tags, or with no *)
(* such row, or with no table.                                             *)
(***************************************************************************)
TagWords ==
    {<<"n", "b", ":", "a">>, <<"x">>, <<"n", "b", ":", "b", "/", ".", "/", "c">>,
     <<"n", "b", ":">>}

MetaRow(key, val) ==
    Element("tr", << >>, <<Cell(key, << >>), Cell(val, << >>)>>)

CreatedRow == MetaRow(<<"C", "r", "e", "a", "t", "e", "d", ":">>, <<"2", "0", "2", "0">>)

TagRows ==
    {<<MetaRow(<<"T", "a", "g", "s", ":">>, Join(<<",", " ">>, list))>> :
        list \in StringsUpTo(TagWords, MaxTags)}
    \cup {<< >>}

MetaTables ==
    {<<Element("table", << >>, created \o row)>> :
        created \in {<< >>, <<CreatedRow>>}, row \in TagRows}
    \cup {<< >>}

Notes ==
    {Element("[document]", << >>, h1 \o table) :
        h1 \in {<< >>, <<Element("h1", << >>, <<Text(<<"N">>)>>)>>}, table \in MetaTables}

InitMeta ==
    /\ pc = "metadata"
    /\ argTag \in Notes
    /\ argString = << >>
    /\ argAttr = << >>
    /\ result = << >>
    /\ retStyle = << >>
    /\ internal_links = << >>
    /\ resources = << >>
    /\ IMAGE_MODE = "wiki"
    /\ err = ""
    /\ NoDriver

ParseMetadata ==
    /\ pc = "metadata"
    /\ meta' = WithoutNotebook(MetaRead(argTag))
    /\ path' = NotebookPath(MetaRead(argTag), path)
    /\ pc' = "metadata parsed"
    /\ UNCHANGED <<argString, argAttr, argTag, result, retStyle, internal_links, resources,
                   IMAGE_MODE, err, links, converted, args, files>>

NextMeta == ParseMetadata

SpecMeta == InitMeta /\ [][NextMeta]_vars

\* the tags listed in the table of the note
TagsListed(soup) == IF Has(MetaRead(soup), tags) THEN MetaRead(soup)[tags] ELSE << >>

\* the members of a list that do not start with 'nb:', in their order
RECURSIVE Others(_)
Others(list) ==
    IF list = << >> THEN << >>
    ELSE (IF StartsWith(Head(list), <<"n", "b", ":">>) THEN << >> ELSE <<Head(list)>>)
         \o Others(Tail(list))

\* C12 as stated: after parse_metadata no tag that starts with 'nb:' is left
\* in meta['tags'], and the other tags of the table are all kept
C12_NoNotebookTagRemains ==
    pc = "metadata parsed" =>
        LET kept == IF Has(meta, tags) THEN meta[tags] ELSE << >>
        IN  /\ NotebookTags(kept) = {}
            /\ kept = Others(TagsListed(argTag))

(***************************************************************************)
(* Specification of the span merger: _format_spans applied to a list of    *)
(* up to MaxSpans spans, with equal styles and with different ones.        *)
(***************************************************************************)
MaxSpans == 3

SpanTexts == {<<"a">>, <<" ", "b">>, <<"c", " ">>}

SpanStyles ==
    {<< >>,
     [bold |-> TRUE],
     [k \in {"bold", "italic"} |-> TRUE],
     [code |-> "True"]}

SpanLists ==
    UNION {[1..n -> {Span(t, s) : t \in SpanTexts, s \in SpanStyles}] : n \in 1..MaxSpans}

InitSpans ==
    /\ pc = "spans"
    /\ argTag \in SpanLists
    /\ argString = << >>
    /\ argAttr = << >>
    /\ result = << >>
    /\ retStyle = << >>
    /\ internal_links = << >>
    /\ resources = << >>
    /\ IMAGE_MODE = "wiki"
    /\ err = ""
    /\ NoDriver

FormatSpans ==
    /\ pc = "spans"
    /\ result' = _format_spans(argTag)
    /\ pc' = "spans formatted"
    /\ UNCHANGED <<driver, argString, argAttr, argTag, retStyle, internal_links, resources,
                   IMAGE_MODE, err>>

NextSpans == FormatSpans

SpecSpans == InitSpans /\ [][NextSpans]_vars

\* the spans all carry the style of the first
SameStyle(spans) == \A n \in 1..Len(spans) : spans[n].style = spans[1].style

\* C13: for a single span, and for two or more spans that all carry the same
\* style, _format_spans gives _format of the concatenated texts with that style
C13_SpansLikeConcatenation ==
    pc = "spans formatted" /\ SameStyle(argTag) =>
        result = _format(Concat([n \in 1..Len(argTag) |-> argTag[n].txt]), argTag[1].style)

\* two bold spans have been merged into one bold text
C13_Witness ==
    /\ pc = "spans formatted"
    /\ argTag = <<Span(<<"a">>, [bold |-> TRUE]), Span(<<" ", "b">>, [bold |-> TRUE])>>
    /\ result = <<"*", "*", "a", " ", "b", "*", "*">>

\* C14 as stated: the style process_tag returns for an element holds set
\* attributes only: no key with the value False, the empty string or None
C14_OnlySetAttributes ==
    pc = "processed" /\ err = "" => \A k \in DOMAIN retStyle : Truthy(retStyle, k)

\* the slots other than its own that the cell placed at row i, column col
\* writes: the following slots of the row for a colspan, the slots below
\* for a rowspan (those inside the grid)
MergeSlots(cell, i, col, table) ==
    {<<i, c>> : c \in (col + 1)..Min(col + SpanOf(cell, "colspan") - 1, Len(table[i]))}
    \cup {<<r, col>> : r \in (i + 1)..Min(i + SpanOf(cell, "rowspan") - 1, Len(table))}

\* the slots among them that hold a text or a merge marker already
Clobbered(cell, i, col, table) ==
    {s \in MergeSlots(cell, i, col, table) : table[s[1]][s[2]] # None}

\* the slots overwritten while the cells of row i from cell k on are placed
RECURSIVE OverwrittenInRow(_, _, _, _, _)
OverwrittenInRow(row, k, i, col0, g) ==
    IF k > Len(row) \/ g.err # "" \/ FreeSlots(g, i, col0) = {} THEN {}
    ELSE Clobbered(row[k], i, Least(FreeSlots(g, i, col0)), g.table)
         \cup OverwrittenInRow(row, k + 1, i, Least(FreeSlots(g, i, col0)),
                  PlaceCell(row[k], i, Least(FreeSlots(g, i, col0)), g,
                      _merge_tags(row[k], "tr", g.internal_links, g.resources)))

\* the slots overwritten while the rows from row i on are placed
RECURSIVE OverwrittenInRows(_, _, _)
OverwrittenInRows(cells, i, g) ==
    IF i > Len(cells) \/ g.err # "" THEN {}
    ELSE OverwrittenInRow(cells[i], 1, i, 1, g)
         \cup OverwrittenInRows(cells, i + 1, FillRow(cells[i], 1, i, 1, g))

\* the slots overwritten while _parse_table fills the grid of the table
Overwritten(tag) ==
    LET cells == TableCells(tag)
        n_cols == Sum([k \in 1..Len(cells[1]) |-> SpanOf(cells[1][k], "colspan")])
    IN  OverwrittenInRows(cells, 1,
            Grid([r \in 1..Len(cells) |-> [c \in 1..n_cols |-> None]], << >>, << >>, ""))

\* C15 as stated: while _parse_table fills the grid of a table it converts,
\* the slots a cell fills for its colspan and its rowspan are free: no slot
\* that holds a cell's text or a merge marker is overwritten
C15_NoSlotOverwritten ==
    pc = "parsed" /\ err = "" /\ NumCells(argTag) > 1 => Overwritten(argTag) = {}

\* the target of the anchor is empty, the placeholder 'https:', a fragment
\* reference, or equal to the text of the children
DroppedTarget(tag, txt) ==
    \/ Attr(tag, "href") = << >>
    \/ Attr(tag, "href") = <<"h", "t", "t", "p", "s", ":">>
    \/ StartsWith(Attr(tag, "href"), <<"#">>)
    \/ Attr(tag, "href") = txt

\* C16: for an anchor whose target is empty, 'https:', a fragment reference
\* or equal to the text, _parse_link returns the text and the style of the
\* children as they are, with no link in the style, and leaves internal_links
\* and resources as they were
C16_DroppedTargetLeavesNoTrace ==
    [][ParseLink /\ DroppedTarget(argTag', argString') =>
           /\ result' = argString'
           /\ retStyle' = argAttr'
           /\ ~Has(retStyle', "link")
           /\ internal_links' = internal_links
           /\ resources' = resources]_vars

\* after a link to a note has been recorded, an anchor whose target equals
\* its text has been handled
C16_Witness ==
    /\ pc = "linked"
    /\ Attr(argTag, "href") = <<"d", "o", "c", ".", "p", "d", "f">>
    /\ argString = <<"d", "o", "c", ".", "p", "d", "f">>
    /\ result = argString
    /\ retStyle = [italic |-> TRUE]
    /\ Len(internal_links) = 1
    /\ resources = << >>

(***************************************************************************)
(* The driver: main converts the start note, or every note of the          *)
(* directory, and in recursive mode follows the internal links of the      *)
(* notes it converts.  files gives, for every note of the directory, the   *)
(* internal links that its conversion returns; every link names a note of  *)
(* the directory, so every conversion succeeds.                            *)
(***************************************************************************)
\* the links of all notes together
MaxLinks == 4

\* sorted(f for f in os.listdir(path) if f.endswith('.html') ...)
FileList == <<"a.html", "b.html", "c.html">>

FileNames == {FileList[k] : k \in 1..Len(FileList)}

Modes == {"single", "recursive", "all"}

\* os.path.dirname(args.path)
Dir == "notes"

\* all_files[::-1]
Reversed(list) == [k \in 1..Len(list) |-> list[Len(list) + 1 - k]]

\* a slip: the links of a converted note are not followed
NoneFollowed(dir, found, conv) == << >>

\* [(path, f) for f in internal_links if f not in converted]
Unconverted(dir, found, conv) ==
    LET new == SelectSeq(found, LAMBDA f : f \notin DOMAIN conv)
    IN  [k \in 1..Len(new) |-> <<dir, new[k]>>]

\* _convert_file(path, fname): the internal links of the note
_convert_file(dir, fname) == files[fname]

InitMain ==
    /\ pc = "main"
    /\ args \in [path : FileNames, mode : Modes]
    /\ \E la \in StringsUpTo(FileNames, MaxLinks) :
           \E lb \in StringsUpTo(FileNames, MaxLinks - Len(la)) :
               \E lc \in StringsUpTo(FileNames, MaxLinks - Len(la) - Len(lb)) :
                   files = [f \in FileNames |->
                               IF f = FileList[1] THEN la
                               ELSE IF f = FileList[2] THEN lb ELSE lc]
    /\ links = << >>
    /\ converted = << >>
    /\ meta = << >>
    /\ path = << >>
    /\ argString = << >>
    /\ argAttr = << >>
    /\ argTag = << >>
    /\ result = << >>
    /\ retStyle = << >>
    /\ internal_links = << >>
    /\ resources = << >>
    /\ IMAGE_MODE = "wiki"
    /\ err = ""

\* main up to the loop: the worklist and the empty map
Start ==
    /\ pc = "main"
    /\ links' = IF args.mode = "all"
                THEN [k \in 1..Len(FileList) |-> <<Dir, Reversed(FileList)[k]>>]
                ELSE <<<<Dir, args.path>>>>
    /\ converted' = << >>
    /\ pc' = "loop"
    /\ UNCHANGED <<argString, argAttr, argTag, result, retStyle, internal_links, resources,
                   IMAGE_MODE, err, meta, path, args, files>>

\* one pass of the loop: the last entry of the worklist is converted
Convert ==
    /\ pc = "loop"
    /\ links # << >>
    /\ \E entry \in {links[Len(links)]} :
           \E found \in {_convert_file(entry[1], entry[2])} :
               /\ internal_links' = found
               /\ converted' = Put(converted, entry[2], found)
               /\ links' = SubSeq(links, 1, Len(links) - 1)
                           \o (IF args.mode = "recursive"
                               THEN Unconverted(entry[1], found, Put(converted, entry[2], found))
                               ELSE << >>)
    /\ UNCHANGED <<pc, argString, argAttr, argTag, result, retStyle, resources,
                   IMAGE_MODE, err, meta, path, args, files>>

\* the worklist is empty: the loop ends
Finish ==
    /\ pc = "loop"
    /\ links = << >>
    /\ pc' = "done"
    /\ UNCHANGED <<argString, argAttr, argTag, result, retStyle, internal_links, resources,
                   IMAGE_MODE, err, meta, path, links, converted, args, files>>

NextMain == Start \/ Convert \/ Finish

SpecMain == InitMain /\ [][NextMain]_vars

\* main is sequential code: it runs on as long as it has a step to take
FairSpecMain == SpecMain /\ WF_vars(NextMain)

\* the notes that can be reached from the notes of S along internal links
RECURSIVE ReachableFrom(_)
ReachableFrom(S) ==
    LET more == S \cup UNION {{files[f][k] : k \in 1..Len(files[f])} : f \in S}
    IN  IF more = S THEN S ELSE ReachableFrom(more)

\* C17: in recursive mode the loop of main ends with an empty worklist, and
\* every note that can be reached from the start note is in the converted
\* map, whatever the links between the notes (cycles, links of a note to
\* itself and repeated links included)
C17_RecursiveModeTerminates ==
    (pc = "main" /\ args.mode = "recursive")
        ~> (/\ pc = "done"
            /\ links = << >>
            /\ ReachableFrom({args.path}) \subseteq DOMAIN converted)

\* the loop has ended for three notes that link to each other in a cycle,
\* the first of them twice to the second
C17_Witness ==
    /\ pc = "done"
    /\ args = [path |-> "a.html", mode |-> "recursive"]
    /\ files = [f \in FileNames |->
                   IF f = "a.html" THEN <<"b.html", "b.html">>
                   ELSE IF f = "b.html" THEN <<"c.html">> ELSE <<"a.html">>]
    /\ DOMAIN converted = FileNames

====
